---- MODULE Spec2Model ----
(***************************************************************************)
(* ArtFlow collaboration backend: the /ws endpoint (websocket_endpoint),   *)
(* its session registry and broadcaster (ConnectionManager) and the event  *)
(* batcher in front of the Redis list 'drawing_events_queue'.              *)
(*                                                                         *)
(* The server runs one asyncio loop.  A step of the model is the code a    *)
(* coroutine runs between two suspension points: the handler suspends in   *)
(* websocket.receive_json (pc "receive") and in asyncio.gather (pc         *)
(* "gather"); the tasks made by asyncio.create_task run later, in the      *)
(* order they were made, and never suspend (the redis client is the        *)
(* blocking one), so each runs as one step.                                *)
(***************************************************************************)
EXTENDS Integers, Sequences, FiniteSets, TLC

\* ------------------------------------------------------------------ bounds
MaxConn == 3        \* transports accepted over a run (Spec)
MaxMsgs == 2        \* client messages received over a run (Spec)
MaxTasks == 1       \* idle time-outs are taken only while fewer tasks are pending
QMaxConn == 2       \* transports accepted over a run (SpecQueue)
QMaxMsgs == 3       \* client messages received over a run (SpecQueue)
MaxClose == 1       \* transports closed by their peers over a run (Spec)
QMaxClose == 1      \* transports closed by their peers over a run (SpecQueue)
MaxTime == 5        \* the clock stops here
MaxFail == 1        \* redis commands that raise over a run
HMaxConn == 2       \* transports accepted over a run (SpecHot)
HMaxMsgs == 2       \* client messages received over a run (SpecHot)
HMaxClose == 1      \* transports closed by their peers over a run (SpecHot)
TMaxConn == 1       \* transports accepted over a run (SpecTrim)
TMaxMsgs == 3       \* client messages received over a run (SpecTrim)
TMaxClose == 1      \* transports closed by their peers over a run (SpecTrim)

DMaxConn == 3       \* transports accepted over a run (SpecDocumentEndpoint)
DMaxMsgs == 2       \* client messages received over a run (SpecDocumentEndpoint)
DMaxClose == 1      \* transports closed by their peers over a run (SpecDocumentEndpoint)

\* --------------------------------------------------------- program constants
REDIS_FLUSH_INTERVAL == 5
QUEUE_KEEP == 5000  \* ltrim('drawing_events_queue', 0, 4999)

Projects == {"P1", "P2"}
Files == {"F1", "F2"}
Users == {"U1", "U2"}
\* the /ws/{project_id}/{file_id}/{user_id} paths clients connect to: two users
\* of one room, a second file of that project, and the same file id in another
\* project
RPaths == {<<"P1", "F1", "U1">>, <<"P1", "F1", "U2">>, <<"P1", "F2", "U1">>,
           <<"P2", "F1", "U2">>}
\* with the queue enabled: two rooms of one project, one user in each
QPaths == {<<"P1", "F1", "U1">>, <<"P1", "F2", "U2">>}
\* with the queue enabled and two users in one room
HPaths == {<<"P1", "F1", "U1">>, <<"P1", "F1", "U2">>}
\* one client, with the Redis list nearly full from earlier runs
TPaths == {<<"P1", "F1", "U1">>}
\* the /ws/document/{project_id}/{file_id}/{user_id} paths of three users of
\* one document
DPaths == {<<"P1", "F1", "U1">>, <<"P1", "F1", "U2">>, <<"P1", "F1", "U3">>}
Rooms == Projects \X Files

VARIABLES
    deployment,             \* "main": src/main.py, "backend": src/backend/main.py
    clients,                \* the /ws paths the clients of the run connect to
    REDIS_ENABLED,          \* module global, fixed once the module is loaded
    active_connections,     \* ConnectionManager.active_connections
    handler,                \* one websocket_endpoint call per transport
    inflight,               \* sends of running gathers that have not completed
    failed,                 \* per broadcasting handler: users whose send raised
    inbox,                  \* per open transport: the messages sent on it, in order
    nmsg,                   \* the client messages received so far
    tasks,                  \* tasks made by asyncio.create_task, not yet run
    redis_event_buffer,     \* module global, an insertion-ordered dict of dicts
    drawing_events_queue,   \* the Redis list, head first
    last_redis_flush_time,  \* module global
    now,                    \* time.time()
    nfail,                  \* redis commands that raised so far
    canvas_states,          \* CanvasHandler.canvas_states
    document_states,        \* DocumentHandler.document_states
    image_states,           \* ImageHandler.image_states
    updates,                \* the updates given to handle_update so far, in order
    reply,                  \* what the last handle_update returned
    drawing_history,        \* the Store's drawing_history table, in insertion order
    writer,                 \* the add_drawing_history calls in progress
    fetched,                \* what the last get_file_history returned
    document_connections,   \* module global: "project_id:file_id" -> {user_id: websocket}
    document_manager,       \* document_manager.active_connections
    doc_handler,            \* one document_websocket_endpoint call per transport
    doc_inbox               \* per document transport: the messages sent on it

vars == <<deployment, clients, REDIS_ENABLED, active_connections, handler, inflight,
          failed, inbox, nmsg, tasks, redis_event_buffer,
          drawing_events_queue, last_redis_flush_time, now, nfail,
          canvas_states, document_states, image_states, updates, reply,
          drawing_history, writer, fetched,
          document_connections, document_manager, doc_handler, doc_inbox>>

configVars == <<deployment, clients, REDIS_ENABLED>>
reducerVars == <<canvas_states, document_states, image_states, updates, reply>>
storeVars == <<drawing_history, writer, fetched>>
documentVars == <<document_connections, document_manager, doc_handler, doc_inbox>>

registryVars == <<active_connections, handler, inflight, failed, inbox, nmsg>>
batcherVars == <<redis_event_buffer, drawing_events_queue, last_redis_flush_time, nfail>>

serverVars == <<registryVars, tasks, batcherVars, now>>

Paths == clients
ConnBound == IF clients = RPaths THEN MaxConn ELSE IF clients = QPaths THEN QMaxConn
             ELSE IF clients = HPaths THEN HMaxConn
             ELSE IF clients = DPaths THEN DMaxConn ELSE TMaxConn
CloseBound == IF clients = RPaths THEN MaxClose ELSE IF clients = QPaths THEN QMaxClose
              ELSE IF clients = HPaths THEN HMaxClose
              ELSE IF clients = DPaths THEN DMaxClose ELSE TMaxClose
MsgBound == IF clients = RPaths THEN MaxMsgs ELSE IF clients = QPaths THEN QMaxMsgs
            ELSE IF clients = HPaths THEN HMaxMsgs
            ELSE IF clients = DPaths THEN DMaxMsgs ELSE TMaxMsgs
WS == 1..(IF MaxConn > DMaxConn THEN MaxConn ELSE DMaxConn)

\* --------------------------------------------------------------- dictionaries
\* A dict whose iteration order is not observed is a function on its keys.
EmptyMap == [k \in {} |-> 0]
Put(m, k, v) == [x \in (DOMAIN m) \cup {k} |-> IF x = k THEN v ELSE m[x]]
Pop(m, k) == [x \in (DOMAIN m) \ {k} |-> m[x]]

\* A dict whose iteration order is observed (flush_redis_buffer walks
\* redis_event_buffer.items()) is the sequence of its <<key, value>> pairs in
\* insertion order.
OKeys(d) == {d[i][1] : i \in 1..Len(d)}
OIndex(d, k) == CHOOSE i \in 1..Len(d) : d[i][1] = k
OGet(d, k) == d[OIndex(d, k)][2]
OPut(d, k, v) ==
    IF k \in OKeys(d) THEN [d EXCEPT ![OIndex(d, k)] = <<k, v>>]
    ELSE Append(d, <<k, v>>)

\* ------------------------------------------------------- ConnectionManager
\* connect that keeps a transport already registered under the key
ConnectKeepFirst(ac, ws, p, f, u) ==
    LET a1 == IF p \in DOMAIN ac THEN ac ELSE Put(ac, p, EmptyMap)
        a2 == IF f \in DOMAIN a1[p] THEN a1 ELSE Put(a1, p, Put(a1[p], f, EmptyMap))
    IN  IF u \in DOMAIN a2[p][f] THEN a2
        ELSE Put(a2, p, Put(a2[p], f, Put(a2[p][f], u, ws)))

\* connect: register the transport under (project_id, file_id, user_id),
\* creating the two outer maps when missing and replacing a prior transport.
Connect(ac, ws, p, f, u) ==
    LET a1 == IF p \in DOMAIN ac THEN ac ELSE Put(ac, p, EmptyMap)
        a2 == IF f \in DOMAIN a1[p] THEN a1 ELSE Put(a1, p, Put(a1[p], f, EmptyMap))
    IN  Put(a2, p, Put(a2[p], f, Put(a2[p][f], u, ws)))

\* disconnect that removes the whole room
DisconnectDropRoom(ac, p, f, u) ==
    IF p \in DOMAIN ac
    THEN LET a1 == Put(ac, p, Pop(ac[p], f))
         IN  IF DOMAIN a1[p] = {} THEN Pop(a1, p) ELSE a1
    ELSE ac

\* disconnect that leaves an emptied file map in place
DisconnectKeepEmpty(ac, p, f, u) ==
    IF p \in DOMAIN ac /\ f \in DOMAIN ac[p]
    THEN Put(ac, p, Put(ac[p], f, Pop(ac[p][f], u)))
    ELSE ac

\* disconnect: pop the user, then the file map and the project map when empty.
Disconnect(ac, p, f, u) ==
    IF p \in DOMAIN ac
    THEN LET a1 == IF f \in DOMAIN ac[p]
                   THEN LET users == Pop(ac[p][f], u)
                        IN  IF DOMAIN users = {}
                            THEN Put(ac, p, Pop(ac[p], f))
                            ELSE Put(ac, p, Put(ac[p], f, users))
                   ELSE ac
         IN  IF DOMAIN a1[p] = {} THEN Pop(a1, p) ELSE a1
    ELSE ac

RECURSIVE DisconnectAll(_, _, _, _)
\* the clean-up loop over disconnected_clients
DisconnectAll(ac, p, f, us) ==
    IF us = {} THEN ac
    ELSE LET u == CHOOSE x \in us : TRUE
         IN  DisconnectAll(Disconnect(ac, p, f, u), p, f, us \ {u})

RoomUsers(ac, p, f) ==
    IF p \in DOMAIN ac /\ f \in DOMAIN ac[p] THEN DOMAIN ac[p][f] ELSE {}

\* a fan-out that does not leave out the sender
SendTargetsAll(ac, p, f, u) ==
    {[user |-> o, ws |-> ac[p][f][o]] : o \in RoomUsers(ac, p, f)}

\* a fan-out to the file id's sessions in every project
SendTargetsAnyProject(ac, p, f, u) ==
    {[user |-> t[2], ws |-> ac[t[1]][f][t[2]]] :
        t \in {t \in (DOMAIN ac) \X Users : t[2] \in RoomUsers(ac, t[1], f) \ {u}}}

\* _broadcast_to_others_immediate, the loop that makes the send coroutines:
\* one per registered session of the room whose user is not the sender.
SendTargets(ac, p, f, u) ==
    {[user |-> o, ws |-> ac[p][f][o]] : o \in RoomUsers(ac, p, f) \ {u}}

\* _broadcast_to_others_immediate after the gather: src/main.py evicts every
\* user whose send raised; src/backend/main.py drops the results.
EvictFailed(ac, p, f, us) ==
    IF deployment = "main" THEN DisconnectAll(ac, p, f, us) ELSE ac

Registered == {active_connections[p][f][u] :
                  <<p, f, u>> \in {t \in Projects \X Files \X Users :
                                      t[3] \in RoomUsers(active_connections, t[1], t[2])}}

\* ---------------------------------------------------------------- handlers
NoMessage == [type |-> "none", data |-> 0, seq |-> 0, from |-> 0]
\* warnings counts the "Unknown message type" warnings the handler has logged
IdleHandler == [project_id |-> "P1", file_id |-> "F1", user_id |-> "U1",
                pc |-> "idle", open |-> FALSE, data |-> NoMessage, warnings |-> 0]
DoneHandler == [IdleHandler EXCEPT !.pc = "done"]

Running(ws) == handler[ws].pc \in {"receive", "gather"}

\* a handler that takes the next message while its gather is still running
AwaitingReceiveNoJoin(ws) == handler[ws].pc \in {"receive", "gather"}

\* the handler is suspended in websocket.receive_json, which it reaches only
\* after broadcast_to_others has returned
AwaitingReceive(ws) == handler[ws].pc = "receive"

\* the message a client sends: seq numbers the messages of a run and from
\* names the transport it came in on (neither is read by the server)
Message(ws, type, data) ==
    [type |-> type, data |-> data, seq |-> nmsg + 1, from |-> ws]

\* the events handed to push_to_redis_queue after the broadcast (the
\* timestamp field, which nothing reads, is left out)
DrawEvent(h, msg) ==
    [project_id |-> h.project_id, file_id |-> h.file_id, user_id |-> h.user_id,
     data |-> msg.data, event_type |-> "draw"]

ClearEvent(h, msg) ==
    [project_id |-> h.project_id, file_id |-> h.file_id, user_id |-> h.user_id,
     seq |-> msg.seq, event_type |-> "clear"]

\* the part of the draw and clear branches after the broadcast
\* persistence that does not look at REDIS_ENABLED
PersistTasksAlways(h, msg) ==
    IF msg.type = "clear" THEN <<[kind |-> "push", event |-> ClearEvent(h, msg)]>>
    ELSE IF msg.data # 0 THEN <<[kind |-> "push", event |-> DrawEvent(h, msg)]>>
    ELSE <<>>

PersistTasks(h, msg) ==
    IF ~REDIS_ENABLED THEN <<>>
    ELSE IF msg.type = "clear" THEN <<[kind |-> "push", event |-> ClearEvent(h, msg)]>>
    ELSE IF msg.data # 0 THEN <<[kind |-> "push", event |-> DrawEvent(h, msg)]>>
    ELSE <<>>

\* manager.connect at the top of websocket_endpoint
Accept(ws, p, f, u) ==
    /\ ws <= ConnBound
    /\ handler[ws].pc = "idle"
    /\ \A w \in WS : w < ws => handler[w].pc # "idle"
    /\ handler' = [handler EXCEPT ![ws] = [project_id |-> p, file_id |-> f, user_id |-> u,
                                            pc |-> "receive", open |-> TRUE,
                                            data |-> NoMessage, warnings |-> 0]]
    /\ active_connections' = Connect(active_connections, ws, p, f, u)
    /\ UNCHANGED <<configVars, documentVars, reducerVars, storeVars, inflight, failed, inbox, nmsg, tasks,
                   batcherVars, now>>

\* the peer closes its end of the transport
PeerClose(ws) ==
    /\ Running(ws)
    /\ handler[ws].open
    /\ Cardinality({w \in WS : handler[w].pc # "idle" /\ ~handler[w].open}) < CloseBound
    /\ handler' = [handler EXCEPT ![ws].open = FALSE]
    /\ UNCHANGED <<configVars, documentVars, reducerVars, storeVars, active_connections, inflight, failed, inbox,
                   nmsg, tasks, batcherVars, now>>

\* a handler that hands the event to the batcher before it broadcasts
RecvBroadcastPersistFirst(ws, type, data) ==
    LET h == handler[ws]
        msg == Message(ws, type, data)
        targets == SendTargets(active_connections, h.project_id, h.file_id, h.user_id)
    IN  /\ AwaitingReceive(ws)
        /\ Running(ws)
        /\ h.open
        /\ nmsg < MsgBound
        /\ Len(tasks) < MaxTasks
        /\ type \in {"draw", "clear"}
        /\ data \in (IF type = "draw" THEN {0, msg.seq} ELSE {0})
        /\ nmsg' = nmsg + 1
        /\ inflight' = inflight \cup
                         {[dst |-> t.ws, user |-> t.user, msg |-> msg] : t \in targets}
        /\ tasks' = tasks \o PersistTasks(h, msg)
        /\ IF targets = {}
           THEN handler' = handler
           ELSE handler' = [handler EXCEPT ![ws].pc = "gather", ![ws].data = msg]
        /\ UNCHANGED <<configVars, documentVars, reducerVars, storeVars, active_connections, failed, inbox,
                       batcherVars, now>>

\* a draw or clear message: broadcast_to_others up to the gather, and, when
\* there is nobody to send to, the rest of the branch
RecvBroadcast(ws, type, data) ==
    LET h == handler[ws]
        msg == Message(ws, type, data)
        targets == SendTargets(active_connections, h.project_id, h.file_id, h.user_id)
    IN  /\ AwaitingReceive(ws)
        /\ Running(ws)
        /\ h.open
        /\ nmsg < MsgBound
        /\ Len(tasks) < MaxTasks
        /\ type \in {"draw", "clear"}
        /\ data \in (IF type = "draw" THEN {0, msg.seq} ELSE {0})
        /\ nmsg' = nmsg + 1
        /\ inflight' = inflight \cup
                         {[dst |-> t.ws, user |-> t.user, msg |-> msg] : t \in targets}
        /\ IF targets = {}
           THEN /\ tasks' = tasks \o PersistTasks(h, msg)
                /\ handler' = handler
           ELSE /\ tasks' = tasks
                /\ handler' = [handler EXCEPT ![ws].pc = "gather", ![ws].data = msg]
        /\ UNCHANGED <<configVars, documentVars, reducerVars, storeVars, active_connections, failed, inbox,
                       batcherVars, now>>

\* one send of a running gather completes on an open transport
SendOk(s) ==
    /\ s \in inflight
    /\ handler[s.dst].open
    /\ inflight' = inflight \ {s}
    /\ inbox' = [inbox EXCEPT ![s.dst] = Append(@, s.msg)]
    /\ UNCHANGED <<configVars, documentVars, reducerVars, storeVars, active_connections, handler, failed, nmsg,
                   tasks, batcherVars, now>>

\* one send of a running gather raises: the transport is closed
SendFail(s) ==
    /\ s \in inflight
    /\ ~handler[s.dst].open
    /\ inflight' = inflight \ {s}
    /\ failed' = [failed EXCEPT ![s.msg.from] = @ \cup {s.user}]
    /\ UNCHANGED <<configVars, documentVars, reducerVars, storeVars, active_connections, handler, inbox, nmsg,
                   tasks, batcherVars, now>>

\* the gather returns: the results are read, the failed users are evicted,
\* and the handler goes on to the persistence part of the branch
GatherDone(ws) ==
    LET h == handler[ws]
    IN  /\ h.pc = "gather"
        /\ \A s \in inflight : s.msg # h.data
        /\ active_connections' =
               EvictFailed(active_connections, h.project_id, h.file_id, failed[ws])
        /\ failed' = [failed EXCEPT ![ws] = {}]
        /\ tasks' = tasks \o PersistTasks(h, h.data)
        /\ handler' = [handler EXCEPT ![ws].pc = "receive", ![ws].data = NoMessage]
        /\ UNCHANGED <<configVars, documentVars, reducerVars, storeVars, inflight, inbox, nmsg, batcherVars, now>>

\* an init message: the handler answers "connected" on its own transport
RecvInit(ws) ==
    LET msg == Message(ws, "init", 0)
    IN  /\ AwaitingReceive(ws)
        /\ Running(ws)
        /\ handler[ws].open
        /\ nmsg < MsgBound
        /\ nmsg' = nmsg + 1
        /\ inbox' = [inbox EXCEPT ![ws] = Append(@, [msg EXCEPT !.type = "connected"])]
        /\ UNCHANGED <<configVars, documentVars, reducerVars, storeVars, active_connections, handler, inflight, failed,
                       tasks, batcherVars, now>>

\* a message of an unknown type that ends the session as an error would
RecvUnknownFatal(ws) ==
    /\ AwaitingReceive(ws)
    /\ Running(ws)
    /\ handler[ws].open
    /\ nmsg < MsgBound
    /\ nmsg' = nmsg + 1
    /\ active_connections' = Disconnect(active_connections, handler[ws].project_id,
                                        handler[ws].file_id, handler[ws].user_id)
    /\ handler' = [handler EXCEPT ![ws] = DoneHandler]
    /\ UNCHANGED <<configVars, documentVars, reducerVars, storeVars, inflight, failed, inbox,
                   tasks, batcherVars, now>>

\* a message of any other type: a warning is logged
RecvUnknown(ws) ==
    /\ AwaitingReceive(ws)
    /\ Running(ws)
    /\ handler[ws].open
    /\ nmsg < MsgBound
    /\ nmsg' = nmsg + 1
    /\ handler' = [handler EXCEPT ![ws].warnings = @ + 1]
    /\ UNCHANGED <<configVars, documentVars, reducerVars, storeVars, active_connections, inflight,
                   failed, inbox, tasks, batcherVars, now>>

\* a message that cannot be processed (receive_json raises on a payload that
\* is not JSON, or data.get on one that is not an object): the inner except
\* sends an "error" message on the handler's own transport and the loop goes on
RecvMalformed(ws) ==
    LET msg == Message(ws, "malformed", 0)
    IN  /\ AwaitingReceive(ws)
        /\ Running(ws)
        /\ handler[ws].open
        /\ nmsg < MsgBound
        /\ nmsg' = nmsg + 1
        /\ inbox' = [inbox EXCEPT ![ws] = Append(@, [msg EXCEPT !.type = "error"])]
        /\ UNCHANGED <<configVars, documentVars, reducerVars, storeVars, active_connections,
                       handler, inflight, failed, tasks, batcherVars, now>>

\* receive_json times out after 1.0 s: check_and_flush_redis_buffer is started
IdleTimeout(ws) ==
    /\ AwaitingReceive(ws)
    /\ Running(ws)
    /\ handler[ws].open
    /\ Len(tasks) < MaxTasks
    /\ tasks' = Append(tasks, [kind |-> "check"])
    /\ UNCHANGED <<configVars, documentVars, reducerVars, storeVars, registryVars, batcherVars, now>>

\* a clean-up that starts the time check instead of the flush
HandlerExitCheckOnly(ws) ==
    LET h == handler[ws]
    IN  /\ AwaitingReceive(ws)
        /\ Running(ws)
        /\ ~h.open
        /\ active_connections' =
               Disconnect(active_connections, h.project_id, h.file_id, h.user_id)
        /\ tasks' = Append(tasks, [kind |-> "check"])
        /\ handler' = [handler EXCEPT ![ws] = DoneHandler]
        /\ inbox' = [inbox EXCEPT ![ws] = <<>>]
        /\ UNCHANGED <<configVars, documentVars, reducerVars, storeVars, inflight, failed, nmsg,
                       batcherVars, now>>

\* receive_json raises on the closed transport, the error message cannot be
\* sent, the loop breaks and the finally block runs
HandlerExit(ws) ==
    LET h == handler[ws]
    IN  /\ AwaitingReceive(ws)
        /\ Running(ws)
        /\ ~h.open
        /\ active_connections' =
               Disconnect(active_connections, h.project_id, h.file_id, h.user_id)
        /\ tasks' = Append(tasks, [kind |-> "flush"])
        /\ handler' = [handler EXCEPT ![ws] = DoneHandler]
        /\ inbox' = [inbox EXCEPT ![ws] = <<>>]
        /\ UNCHANGED <<configVars, documentVars, reducerVars, storeVars, inflight, failed, nmsg, batcherVars, now>>

\* -------------------------------------------------------- document endpoint
\* warnings and errors count what the handler has logged with logger.warning
\* ("Unknown message type") and logger.error
IdleDocHandler == [project_id |-> "P1", file_id |-> "F1", user_id |-> "U1",
                   pc |-> "idle", open |-> FALSE, msg |-> NoMessage, pos |-> 0, size |-> 0,
                   disconnected_users |-> {}, warnings |-> 0, errors |-> 0,
                   start |-> {}, attempted |-> {}]

DoneDocHandler == [IdleDocHandler EXCEPT !.pc = "done"]

DocRunning(ws) == doc_handler[ws].pc \in {"receive", "send"}

\* document_key = f"{project_id}:{file_id}"
DocKey(h) == <<h.project_id, h.file_id>>

\* document_connections[document_key], a dict iterated in insertion order
DocEntries(dc, key) == IF key \in DOMAIN dc THEN dc[key] ELSE <<>>

\* the document transports closed by their peers whose handler has not ended
DocClosing == {w \in WS : DocRunning(w) /\ ~doc_handler[w].open}

\* document_manager.connect, the registration in document_connections and the
\* "connected" confirmation at the top of document_websocket_endpoint
DocAccept(ws, p, f, u) ==
    /\ ws <= ConnBound
    /\ doc_handler[ws].pc = "idle"
    /\ \A w \in WS : w < ws => doc_handler[w].pc # "idle"
    /\ document_manager' = Connect(document_manager, ws, p, f, u)
    /\ document_connections' =
           Put(document_connections, <<p, f>>,
               OPut(DocEntries(document_connections, <<p, f>>), u, ws))
    /\ doc_inbox' = [doc_inbox EXCEPT ![ws] =
                        Append(@, [type |-> "connected", data |-> 0, seq |-> 0, from |-> ws])]
    /\ doc_handler' = [doc_handler EXCEPT ![ws] =
                          [IdleDocHandler EXCEPT !.project_id = p, !.file_id = f,
                                                 !.user_id = u, !.pc = "receive",
                                                 !.open = TRUE]]
    /\ UNCHANGED <<configVars, serverVars, reducerVars, storeVars>>

\* the peer closes its end of a document transport
DocPeerClose(ws) ==
    /\ DocRunning(ws)
    /\ doc_handler[ws].open
    /\ Cardinality(DocClosing) < CloseBound
    /\ doc_handler' = [doc_handler EXCEPT ![ws].open = FALSE]
    /\ UNCHANGED <<configVars, serverVars, reducerVars, storeVars, document_connections,
                   document_manager, doc_inbox>>

\* the handler is back in websocket.receive_text
DocReceiving(h) ==
    [h EXCEPT !.pc = "receive", !.msg = NoMessage, !.pos = 0, !.size = 0,
              !.disconnected_users = {}, !.start = {}, !.attempted = {}]

\* The broadcast loop of the text_operation and cursor_update branches, from
\* one await to the next: the dict iterator raises when the dict has changed
\* size since the loop began (the inner except logs it and the branch is
\* over); the sender's own entry is skipped; the next entry is sent to, and a
\* send that raises puts the user in disconnected_users; after the last entry
\* the disconnected users are deleted from document_connections.
DocFanout(ws, h) ==
    LET key == DocKey(h)
        entries == DocEntries(document_connections, key)
        rest == {i \in (h.pos + 1)..Len(entries) : entries[i][1] # h.user_id}
    IN  IF Len(entries) # h.size
        THEN /\ doc_handler' = [doc_handler EXCEPT ![ws] =
                                   [DocReceiving(h) EXCEPT !.errors = @ + 1]]
             /\ UNCHANGED <<document_connections, doc_inbox>>
        ELSE IF rest = {}
        THEN /\ doc_handler' = [doc_handler EXCEPT ![ws] = DocReceiving(h)]
             /\ document_connections' =
                    Put(document_connections, key,
                        SelectSeq(entries, LAMBDA e : e[1] \notin h.disconnected_users))
             /\ UNCHANGED doc_inbox
        ELSE LET i == CHOOSE k \in rest : \A j \in rest : k <= j
                 conn == entries[i][2]
             IN  /\ IF doc_handler[conn].open
                    THEN /\ doc_inbox' = [doc_inbox EXCEPT ![conn] = Append(@, h.msg)]
                         /\ doc_handler' = [doc_handler EXCEPT ![ws] =
                                               [h EXCEPT !.pc = "send", !.pos = i,
                                                         !.attempted = @ \cup {conn}]]
                    ELSE /\ doc_inbox' = doc_inbox
                         /\ doc_handler' = [doc_handler EXCEPT ![ws] =
                                [h EXCEPT !.pc = "send", !.pos = i,
                                          !.attempted = @ \cup {conn},
                                          !.disconnected_users = @ \cup {entries[i][1]}]]
                 /\ UNCHANGED document_connections

\* the transports registered in the handler's document under another user
DocOthers(h) ==
    LET entries == DocEntries(document_connections, DocKey(h))
    IN  {entries[i][2] : i \in {k \in 1..Len(entries) : entries[k][1] # h.user_id}}

\* a text_operation or cursor_update message, up to the first await of its
\* broadcast loop
DocRecvOperation(ws, type) ==
    LET h == doc_handler[ws]
    IN  /\ h.pc = "receive"
        /\ h.open
        /\ nmsg < MsgBound
        /\ nmsg' = nmsg + 1
        /\ DocFanout(ws, [h EXCEPT !.msg = Message(ws, type, 0),
                                   !.size = Len(DocEntries(document_connections, DocKey(h))),
                                   !.start = DocOthers(h)])
        /\ UNCHANGED <<configVars, reducerVars, storeVars, active_connections, handler, inflight,
                       failed, inbox, tasks, batcherVars, now, document_manager>>

\* a send of the broadcast loop has returned: the loop goes on
DocSendNext(ws) ==
    /\ doc_handler[ws].pc = "send"
    /\ DocFanout(ws, doc_handler[ws])
    /\ UNCHANGED <<configVars, serverVars, reducerVars, storeVars, document_manager>>

\* an init message: it is logged
DocRecvInit(ws) ==
    /\ doc_handler[ws].pc = "receive"
    /\ doc_handler[ws].open
    /\ nmsg < MsgBound
    /\ nmsg' = nmsg + 1
    /\ UNCHANGED <<configVars, reducerVars, storeVars, active_connections, handler, inflight,
                   failed, inbox, tasks, batcherVars, now, documentVars>>

\* a message of any other type: a warning is logged
DocRecvUnknown(ws) ==
    /\ doc_handler[ws].pc = "receive"
    /\ doc_handler[ws].open
    /\ nmsg < MsgBound
    /\ nmsg' = nmsg + 1
    /\ doc_handler' = [doc_handler EXCEPT ![ws].warnings = @ + 1]
    /\ UNCHANGED <<configVars, reducerVars, storeVars, active_connections, handler, inflight,
                   failed, inbox, tasks, batcherVars, now, document_connections,
                   document_manager, doc_inbox>>

\* a message that is not JSON, or whose processing raises: the error is logged
\* and the loop goes on; nothing is sent
DocRecvMalformed(ws) ==
    /\ doc_handler[ws].pc = "receive"
    /\ doc_handler[ws].open
    /\ nmsg < MsgBound
    /\ nmsg' = nmsg + 1
    /\ doc_handler' = [doc_handler EXCEPT ![ws].errors = @ + 1]
    /\ UNCHANGED <<configVars, reducerVars, storeVars, active_connections, handler, inflight,
                   failed, inbox, tasks, batcherVars, now, document_connections,
                   document_manager, doc_inbox>>

\* receive_text raises on the closed transport.  The exception reaches
\* "except WebSocketDisconnect:", a name src/main.py never imports: looking it
\* up raises NameError, the clean-up under the clause does not run and the
\* handler ends with both registries as they were.
DocHandlerExit(ws) ==
    /\ doc_handler[ws].pc = "receive"
    /\ ~doc_handler[ws].open
    /\ doc_handler' = [doc_handler EXCEPT ![ws] = DoneDocHandler]
    /\ UNCHANGED <<configVars, serverVars, reducerVars, storeVars, document_connections,
                   document_manager, doc_inbox>>

\* ------------------------------------------------------------ event batcher
\* add_to_redis_buffer
AddToBuffer(buf, e) ==
    LET files == IF e.project_id \in OKeys(buf) THEN OGet(buf, e.project_id) ELSE <<>>
        events == IF e.file_id \in OKeys(files) THEN OGet(files, e.file_id) ELSE <<>>
    IN  OPut(buf, e.project_id, OPut(files, e.file_id, Append(events, e)))

RECURSIVE BufferRooms(_)
\* the rooms of the buffer in the order the two nested loops of
\* flush_redis_buffer visit them, each as <<project_id, file_id, events>>,
\* without the rooms whose list is empty
BufferRooms(buf) ==
    IF buf = <<>> THEN <<>>
    ELSE LET p == Head(buf)[1]
             files == Head(buf)[2]
             all == [j \in 1..Len(files) |-> <<p, files[j][1], files[j][2]>>]
         IN  SelectSeq(all, LAMBDA r : r[3] # <<>>) \o BufferRooms(Tail(buf))

\* a flush that wraps every room's events in an envelope, a single one too
QueueEntryAlwaysBatch(room) ==
    [project_id |-> room[1], file_id |-> room[2], event_type |-> "batch",
     events |-> room[3], count |-> Len(room[3])]

\* what flush_redis_buffer pushes for one room: the event itself, or a batch
\* envelope (the timestamp field, which nothing reads, is left out)
QueueEntry(room) ==
    IF Len(room[3]) = 1 THEN room[3][1]
    ELSE [project_id |-> room[1], file_id |-> room[2], event_type |-> "batch",
          events |-> room[3], count |-> Len(room[3])]

LPush(q, x) == <<x>> \o q

LTrim(q) == SubSeq(q, 1, IF Len(q) < QUEUE_KEEP THEN Len(q) ELSE QUEUE_KEEP)

RECURSIVE PushRooms(_, _, _)
\* the queue after the first k rooms have been pushed
PushRooms(q, rooms, k) ==
    IF k = 0 \/ rooms = <<>> THEN q
    ELSE PushRooms(LPush(q, QueueEntry(Head(rooms))), Tail(rooms), k - 1)

\* the redis commands a flush of buf issues: one lpush per room and, when
\* anything was pushed, the ltrim
FlushCommands(buf) ==
    IF ~REDIS_ENABLED \/ BufferRooms(buf) = <<>> THEN 0 ELSE Len(BufferRooms(buf)) + 1

\* a flush that returns at once, buffer untouched, when the queue is disabled
FlushRedisBufferKeepWhenDisabled(buf, q, last, t, x) ==
    LET rooms == BufferRooms(buf)
        n == Len(rooms)
    IN  IF ~REDIS_ENABLED
        THEN [buffer |-> buf, queue |-> q, last |-> last, raised |-> 0]
        ELSE IF x < n
        THEN [buffer |-> buf, queue |-> PushRooms(q, rooms, x), last |-> last, raised |-> 1]
        ELSE IF x < FlushCommands(buf)
        THEN [buffer |-> <<>>, queue |-> PushRooms(q, rooms, n), last |-> last, raised |-> 1]
        ELSE [buffer |-> <<>>,
              queue |-> IF n > 0 THEN LTrim(PushRooms(q, rooms, n)) ELSE q,
              last |-> t, raised |-> 0]

\* a flush that clears the buffer whether or not its pushes succeeded
FlushRedisBufferDropOnError(buf, q, last, t, x) ==
    LET rooms == BufferRooms(buf)
        n == Len(rooms)
    IN  IF ~REDIS_ENABLED
        THEN [buffer |-> <<>>, queue |-> q, last |-> last, raised |-> 0]
        ELSE IF x < FlushCommands(buf)
        THEN [buffer |-> <<>>, queue |-> PushRooms(q, rooms, IF x < n THEN x ELSE n),
              last |-> last, raised |-> 1]
        ELSE [buffer |-> <<>>,
              queue |-> IF n > 0 THEN LTrim(PushRooms(q, rooms, n)) ELSE q,
              last |-> t, raised |-> 0]

\* a flush that pushes its first room only and clears the whole buffer
FlushRedisBufferFirstRoomOnly(buf, q, last, t, x) ==
    LET rooms == BufferRooms(buf)
        n == Len(rooms)
    IN  IF ~REDIS_ENABLED
        THEN [buffer |-> <<>>, queue |-> q, last |-> last, raised |-> 0]
        ELSE IF x < n
        THEN [buffer |-> buf, queue |-> PushRooms(q, rooms, x), last |-> last, raised |-> 1]
        ELSE IF x < FlushCommands(buf)
        THEN [buffer |-> <<>>, queue |-> PushRooms(q, rooms, 1), last |-> last, raised |-> 1]
        ELSE [buffer |-> <<>>,
              queue |-> IF n > 0 THEN LTrim(PushRooms(q, rooms, 1)) ELSE q,
              last |-> t, raised |-> 0]

\* a flush that records its time whether or not its commands succeeded
FlushRedisBufferStampAlways(buf, q, last, t, x) ==
    LET rooms == BufferRooms(buf)
        n == Len(rooms)
    IN  IF ~REDIS_ENABLED
        THEN [buffer |-> <<>>, queue |-> q, last |-> last, raised |-> 0]
        ELSE IF x < n
        THEN [buffer |-> buf, queue |-> PushRooms(q, rooms, x), last |-> t, raised |-> 1]
        ELSE IF x < FlushCommands(buf)
        THEN [buffer |-> <<>>, queue |-> PushRooms(q, rooms, n), last |-> t, raised |-> 1]
        ELSE [buffer |-> <<>>,
              queue |-> IF n > 0 THEN LTrim(PushRooms(q, rooms, n)) ELSE q,
              last |-> t, raised |-> 0]

\* flush_redis_buffer when the first x redis commands succeed and the next,
\* if there is one, raises: the buffer, the queue and the last flush time it
\* leaves, and how many commands raised
FlushRedisBuffer(buf, q, last, t, x) ==
    LET rooms == BufferRooms(buf)
        n == Len(rooms)
    IN  IF ~REDIS_ENABLED
        THEN [buffer |-> <<>>, queue |-> q, last |-> last, raised |-> 0]
        ELSE IF x < n
        THEN [buffer |-> buf, queue |-> PushRooms(q, rooms, x), last |-> last, raised |-> 1]
        ELSE IF x < FlushCommands(buf)
        THEN [buffer |-> <<>>, queue |-> PushRooms(q, rooms, n), last |-> last, raised |-> 1]
        ELSE [buffer |-> <<>>,
              queue |-> IF n > 0 THEN LTrim(PushRooms(q, rooms, n)) ELSE q,
              last |-> t, raised |-> 0]

\* a time check that finds every flush due
FlushDueAlways(last, t) == TRUE

\* check_and_flush_redis_buffer: the time check
FlushDue(last, t) == (t - last) >= REDIS_FLUSH_INTERVAL

\* check_and_flush_redis_buffer
CheckAndFlush(buf, q, last, t, x) ==
    IF FlushDue(last, t) THEN FlushRedisBuffer(buf, q, last, t, x)
    ELSE [buffer |-> buf, queue |-> q, last |-> last, raised |-> 0]

\* a clear that is pushed without the flush before it
PushClearNoFlush(buf, q, last, t, e, x, ok) ==
    [buffer |-> buf, queue |-> IF ok THEN LPush(q, e) ELSE q, last |-> last,
     raised |-> IF ok THEN 0 ELSE 1]

\* push_to_redis_queue for a clear event: the flush, then the lpush of the
\* clear itself, which raises when ok is FALSE
PushClear(buf, q, last, t, e, x, ok) ==
    LET r == FlushRedisBuffer(buf, q, last, t, x)
    IN  [r EXCEPT !.queue = IF ok THEN LPush(r.queue, e) ELSE r.queue,
                  !.raised = r.raised + (IF ok THEN 0 ELSE 1)]

\* push_to_redis_queue for any other event: buffer it, then the time check
PushDraw(buf, q, last, t, e, x) ==
    CheckAndFlush(AddToBuffer(buf, e), q, last, t, x)

\* the next task is a push_to_redis_queue(event)
RunPush(x, ok) ==
    /\ tasks # <<>>
    /\ Head(tasks).kind = "push"
    /\ LET e == Head(tasks).event
           clear == e.event_type = "clear"
           buf == IF clear THEN redis_event_buffer ELSE AddToBuffer(redis_event_buffer, e)
           flushes == clear \/ FlushDue(last_redis_flush_time, now)
           r == IF clear
                THEN PushClear(redis_event_buffer, drawing_events_queue,
                               last_redis_flush_time, now, e, x, ok)
                ELSE PushDraw(redis_event_buffer, drawing_events_queue,
                              last_redis_flush_time, now, e, x)
       IN  /\ x \in 0..(IF flushes THEN FlushCommands(buf) ELSE 0)
           /\ ~clear => ok
           /\ nfail + r.raised <= MaxFail
           /\ redis_event_buffer' = r.buffer
           /\ drawing_events_queue' = r.queue
           /\ last_redis_flush_time' = r.last
           /\ nfail' = nfail + r.raised
    /\ tasks' = Tail(tasks)
    /\ UNCHANGED <<configVars, documentVars, reducerVars, storeVars, registryVars, now>>

\* the next task is a check_and_flush_redis_buffer() or a flush_redis_buffer()
RunFlush(x) ==
    /\ tasks # <<>>
    /\ Head(tasks).kind \in {"check", "flush"}
    /\ LET check == Head(tasks).kind = "check"
           flushes == ~check \/ FlushDue(last_redis_flush_time, now)
           ncmd == IF flushes THEN FlushCommands(redis_event_buffer) ELSE 0
           r == IF check
                THEN CheckAndFlush(redis_event_buffer, drawing_events_queue,
                                   last_redis_flush_time, now, x)
                ELSE FlushRedisBuffer(redis_event_buffer, drawing_events_queue,
                                      last_redis_flush_time, now, x)
       IN  /\ x \in 0..ncmd
           /\ nfail + r.raised <= MaxFail
           /\ redis_event_buffer' = r.buffer
           /\ drawing_events_queue' = r.queue
           /\ last_redis_flush_time' = r.last
           /\ nfail' = nfail + r.raised
    /\ tasks' = Tail(tasks)
    /\ UNCHANGED <<configVars, documentVars, reducerVars, storeVars, registryVars, now>>

\* time passes; the code reads the clock only to compare the time since the
\* last flush with the flush interval, so the clock moves an interval at a time
Tick ==
    /\ now + REDIS_FLUSH_INTERVAL <= MaxTime
    /\ now' = now + REDIS_FLUSH_INTERVAL
    /\ UNCHANGED <<configVars, documentVars, reducerVars, storeVars, registryVars, tasks, batcherVars>>

\* ------------------------------------------------------------------- store
MaxRows == 4        \* add_drawing_history calls over a run
\* the (project_id, file_id) pairs history is written for: two files of one
\* project and a file id that two projects share
StoreFiles == {<<"P1", "F1">>, <<"P1", "F2">>, <<"P2", "F1">>}

\* the processes that call add_drawing_history
Writers == {1, 2}
\* a writer with no call in progress
IdleWriter == [pc |-> "idle", project_id |-> "P1", file_id |-> "F1", user_id |-> "U1",
               drawing_data |-> 0, sequence_number |-> 0]

\* select('sequence_number').eq('file_id', file_id): the rows of a file id,
\* whatever their project
FileRows(table, f) == SelectSeq(table, LAMBDA r : r.file_id = f)

\* .order('sequence_number', desc=True).limit(1), then + 1; 1 when no row
NextSequenceNumber(table, f) ==
    LET rows == FileRows(table, f)
        nums == {rows[i].sequence_number : i \in 1..Len(rows)}
    IN  IF nums = {} THEN 1
        ELSE (CHOOSE m \in nums : \A n \in nums : m >= n) + 1

\* the calls of add_drawing_history that have started
CallsStarted ==
    Len(drawing_history) + Cardinality({w \in Writers : writer[w].pc = "insert"})

\* add_drawing_history up to the insert: the current maximum is read
ReadMax(w, p, f, u) ==
    /\ writer[w].pc = "idle"
    /\ CallsStarted < MaxRows
    /\ writer' = [writer EXCEPT ![w] =
                     [pc |-> "insert", project_id |-> p, file_id |-> f, user_id |-> u,
                      drawing_data |-> CallsStarted + 1,
                      sequence_number |-> NextSequenceNumber(drawing_history, f)]]
    /\ UNCHANGED <<configVars, documentVars, serverVars, reducerVars, drawing_history, fetched>>

\* add_drawing_history: the insert
InsertRow(w) ==
    /\ writer[w].pc = "insert"
    /\ drawing_history' = Append(drawing_history,
           [file_id |-> writer[w].file_id, project_id |-> writer[w].project_id,
            user_id |-> writer[w].user_id, drawing_data |-> writer[w].drawing_data,
            sequence_number |-> writer[w].sequence_number])
    /\ writer' = [writer EXCEPT ![w] = IdleWriter]
    /\ UNCHANGED <<configVars, documentVars, serverVars, reducerVars, fetched>>

\* the rows of one file of one project in an order the query may return them
\* in: ascending by sequence_number, rows with equal numbers in any order
OrderedRows(table, p, f) ==
    LET rows == SelectSeq(table, LAMBDA r : r.file_id = f /\ r.project_id = p)
        k == Len(rows)
    IN  {[i \in 1..k |-> rows[pi[i]]] :
            pi \in {q \in [1..k -> 1..k] :
                      /\ \A i, j \in 1..k : i # j => q[i] # q[j]
                      /\ \A i, j \in 1..k :
                             i < j => rows[q[i]].sequence_number
                                          <= rows[q[j]].sequence_number}}

\* what get_file_history makes of the rows (the timestamp is left out)
HistoryEntries(rows) ==
    [i \in 1..Len(rows) |-> [userId |-> rows[i].user_id, data |-> rows[i].drawing_data]]

\* get_file_history.  The query is built with .order('sequence_number',
\* asc=True): when the client library accepts the keyword the rows come back
\* in ascending order, and when it does not the call raises, the exception is
\* caught and [] is returned.
GetFileHistory(p, f, accepted) ==
    /\ fetched' \in (IF accepted
                     THEN {HistoryEntries(rows) : rows \in OrderedRows(drawing_history, p, f)}
                     ELSE {<<>>})
    /\ fetched' # fetched
    /\ UNCHANGED <<configVars, documentVars, serverVars, reducerVars, drawing_history, writer>>

NextStore ==
    \/ \E w \in Writers, t \in StoreFiles, u \in {"U1"} : ReadMax(w, t[1], t[2], u)
    \/ \E w \in Writers : InsertRow(w)
    \/ \E t \in StoreFiles, accepted \in BOOLEAN : GetFileHistory(t[1], t[2], accepted)

\* one process appending: its calls of add_drawing_history follow each other
NextAppend ==
    \/ \E t \in StoreFiles, u \in {"U1"} : ReadMax(1, t[1], t[2], u)
    \/ InsertRow(1)
    \/ \E t \in StoreFiles, accepted \in BOOLEAN : GetFileHistory(t[1], t[2], accepted)

\* ---------------------------------------------------------------- reducers
MaxUpdates == 4     \* calls of one handler's handle_update over a run
LMaxUpdates == 6    \* the same, when a single room is updated
\* the calls of handle_update a run makes
UpdateBound == IF clients = TPaths THEN LMaxUpdates ELSE MaxUpdates
\* the (project_id, file_id) pairs handle_update is called for: a project with
\* two files and a second project
ReducerRooms == {<<"P1", "F1">>, <<"P1", "F2">>, <<"P2", "F1">>}
\* payloads of draw updates
Strokes == {[points |-> 1], [points |-> 2]}
\* the payload of a cursor_move update
CursorData == [x |-> 1, y |-> 2]

\* project_id in states and file_id in states[project_id]
HasRoom(states, p, f) == p \in DOMAIN states /\ f \in DOMAIN states[p]

\* the data argument of handle_update
Update(type, payload, u) == [update_type |-> type, data |-> payload, user_id |-> u]

\* what handle_update is given, in the order it is given
Logged(h, p, f, data) ==
    Append(updates, [handler |-> h, project_id |-> p, file_id |-> f, data |-> data])

\* CanvasHandler.initialize_canvas
initialize_canvas(states, p, f) ==
    LET s == IF p \notin DOMAIN states THEN Put(states, p, EmptyMap) ELSE states
    IN  IF f \notin DOMAIN s[p]
        THEN [s EXCEPT ![p] = Put(@, f, [strokes |-> <<>>, current_users |-> {}])]
        ELSE s

\* a clear that leaves the strokes as they are
Canvas_handle_clear_keep(states, p, f) ==
    [state |-> states, reply |-> [type |-> "clear", data |-> EmptyMap]]

\* CanvasHandler._handle_draw
Canvas_handle_draw(states, p, f, data) ==
    LET s == IF ~HasRoom(states, p, f) THEN initialize_canvas(states, p, f) ELSE states
        stroke_data == data.data
    IN  [state |-> [s EXCEPT ![p][f].strokes = Append(@, stroke_data)],
         reply |-> [type |-> "draw", data |-> stroke_data]]

\* CanvasHandler._handle_clear
Canvas_handle_clear(states, p, f) ==
    [state |-> IF HasRoom(states, p, f)
               THEN [states EXCEPT ![p][f].strokes = <<>>]
               ELSE states,
     reply |-> [type |-> "clear", data |-> EmptyMap]]

\* CanvasHandler._handle_cursor_move
Canvas_handle_cursor_move(states, data) ==
    [state |-> states,
     reply |-> [type |-> "cursor_move",
                data |-> [x |-> data.data.x, y |-> data.data.y, user_id |-> data.user_id]]]

\* CanvasHandler.handle_update
Canvas_handle_update(states, p, f, data) ==
    IF data.update_type = "draw" THEN Canvas_handle_draw(states, p, f, data)
    ELSE IF data.update_type = "clear" THEN Canvas_handle_clear(states, p, f)
    ELSE IF data.update_type = "cursor_move" THEN Canvas_handle_cursor_move(states, data)
    ELSE [state |-> states, reply |-> data]

\* the updates a canvas client sends
CanvasUpdates ==
    {Update("draw", n, "U1") : n \in Strokes}
        \cup {Update("clear", EmptyMap, "U1"), Update("cursor_move", CursorData, "U1"),
              Update("resize", EmptyMap, "U1")}

\* one call of CanvasHandler.handle_update
CanvasUpdate(p, f, data) ==
    /\ Len(updates) < UpdateBound
    /\ LET r == Canvas_handle_update(canvas_states, p, f, data)
       IN  /\ canvas_states' = r.state
           /\ reply' = r.reply
    /\ updates' = Logged("canvas", p, f, data)
    /\ UNCHANGED <<configVars, documentVars, serverVars, storeVars, document_states, image_states>>

NextCanvas == \E t \in ReducerRooms, data \in CanvasUpdates : CanvasUpdate(t[1], t[2], data)

\* document contents a client sends
Contents == {"a", "b"}

\* DocumentHandler.initialize_document
initialize_document(states, p, f) ==
    LET s == IF p \notin DOMAIN states THEN Put(states, p, EmptyMap) ELSE states
    IN  IF f \notin DOMAIN s[p]
        THEN [s EXCEPT ![p] = Put(@, f, [content |-> "", cursors |-> EmptyMap,
                                         selections |-> EmptyMap])]
        ELSE s

\* a text change that keeps the content a document already has
Document_handle_text_change_first(states, p, f, data) ==
    LET s == IF ~HasRoom(states, p, f) THEN initialize_document(states, p, f) ELSE states
        change_data == data.data
    IN  [state |-> IF s[p][f].content = ""
                   THEN [s EXCEPT ![p][f].content = change_data.content]
                   ELSE s,
         reply |-> [type |-> "text_change", data |-> change_data]]

\* DocumentHandler._handle_text_change
Document_handle_text_change(states, p, f, data) ==
    LET s == IF ~HasRoom(states, p, f) THEN initialize_document(states, p, f) ELSE states
        change_data == data.data
    IN  [state |-> [s EXCEPT ![p][f].content = change_data.content],
         reply |-> [type |-> "text_change", data |-> change_data]]

\* a cursor change that returns all it was given
Document_handle_cursor_change_echo(states, p, f, data) ==
    LET s == IF ~HasRoom(states, p, f) THEN initialize_document(states, p, f) ELSE states
    IN  [state |-> [s EXCEPT ![p][f].cursors = Put(@, data.user_id, data.data)],
         reply |-> [type |-> "cursor_change", data |-> Put(data.data, "user_id", data.user_id)]]

\* DocumentHandler._handle_cursor_change
Document_handle_cursor_change(states, p, f, data) ==
    LET s == IF ~HasRoom(states, p, f) THEN initialize_document(states, p, f) ELSE states
        user_id == data.user_id
        cursor_data == data.data
    IN  [state |-> [s EXCEPT ![p][f].cursors = Put(@, user_id, cursor_data)],
         reply |-> [type |-> "cursor_change",
                    data |-> [position |-> cursor_data.position, user_id |-> user_id]]]

\* DocumentHandler._handle_selection_change
Document_handle_selection_change(states, p, f, data) ==
    LET s == IF ~HasRoom(states, p, f) THEN initialize_document(states, p, f) ELSE states
        user_id == data.user_id
        selection_data == data.data
    IN  [state |-> [s EXCEPT ![p][f].selections = Put(@, user_id, selection_data)],
         reply |-> [type |-> "selection_change",
                    data |-> [range |-> selection_data.range, user_id |-> user_id]]]

\* a handle_update that gives the room of an unrecognised update a state
Document_handle_update_init(states, p, f, data) ==
    IF data.update_type = "text_change" THEN Document_handle_text_change(states, p, f, data)
    ELSE IF data.update_type = "cursor_change"
         THEN Document_handle_cursor_change(states, p, f, data)
    ELSE IF data.update_type = "selection_change"
         THEN Document_handle_selection_change(states, p, f, data)
    ELSE [state |-> initialize_document(states, p, f), reply |-> data]

\* DocumentHandler.handle_update
Document_handle_update(states, p, f, data) ==
    IF data.update_type = "text_change" THEN Document_handle_text_change(states, p, f, data)
    ELSE IF data.update_type = "cursor_change"
         THEN Document_handle_cursor_change(states, p, f, data)
    ELSE IF data.update_type = "selection_change"
         THEN Document_handle_selection_change(states, p, f, data)
    ELSE [state |-> states, reply |-> data]

\* the updates document clients send
DocumentUpdates ==
    {Update("text_change", [content |-> c], "U1") : c \in Contents}
        \cup {Update("cursor_change", [position |-> 1, color |-> "red"], u) : u \in Users}
        \cup {Update("selection_change", [range |-> 1, color |-> "red"], u) : u \in Users}
        \cup {Update("format", EmptyMap, "U1")}

\* one call of DocumentHandler.handle_update
DocumentUpdate(p, f, data) ==
    /\ Len(updates) < UpdateBound
    /\ LET r == Document_handle_update(document_states, p, f, data)
       IN  /\ document_states' = r.state
           /\ reply' = r.reply
    /\ updates' = Logged("document", p, f, data)
    /\ UNCHANGED <<configVars, documentVars, serverVars, storeVars, canvas_states, image_states>>

NextDocument ==
    \E t \in ReducerRooms, data \in DocumentUpdates : DocumentUpdate(t[1], t[2], data)

\* the ids annotation_delete and annotation_update are sent with
AnnotationIds == {0, 1}

\* ImageHandler.initialize_image
initialize_image(states, p, f) ==
    LET s == IF p \notin DOMAIN states THEN Put(states, p, EmptyMap) ELSE states
    IN  IF f \notin DOMAIN s[p]
        THEN [s EXCEPT ![p] = Put(@, f, [annotations |-> <<>>, cursors |-> EmptyMap,
                                         current_users |-> {}])]
        ELSE s

\* an add that numbers the annotations from 1
Image_handle_annotation_add_from_one(states, p, f, data) ==
    LET s == IF ~HasRoom(states, p, f) THEN initialize_image(states, p, f) ELSE states
        annotation_data == Put(data.data, "id", Len(s[p][f].annotations) + 1)
    IN  [state |-> [s EXCEPT ![p][f].annotations = Append(@, annotation_data)],
         reply |-> [type |-> "annotation_add", data |-> annotation_data]]

\* ImageHandler._handle_annotation_add
Image_handle_annotation_add(states, p, f, data) ==
    LET s == IF ~HasRoom(states, p, f) THEN initialize_image(states, p, f) ELSE states
        annotation_data == Put(data.data, "id", Len(s[p][f].annotations))
    IN  [state |-> [s EXCEPT ![p][f].annotations = Append(@, annotation_data)],
         reply |-> [type |-> "annotation_add", data |-> annotation_data]]

\* a delete that gives a room without state an empty one
Image_handle_annotation_delete_init(states, p, f, data) ==
    LET s == initialize_image(states, p, f)
    IN  [state |-> [s EXCEPT ![p][f].annotations =
                       SelectSeq(@, LAMBDA ann : ann.id # data.data.id)],
         reply |-> [type |-> "annotation_delete", data |-> data.data]]

\* ImageHandler._handle_annotation_delete
Image_handle_annotation_delete(states, p, f, data) ==
    [state |-> IF HasRoom(states, p, f)
               THEN LET annotation_id == data.data.id
                    IN  [states EXCEPT ![p][f].annotations =
                            SelectSeq(@, LAMBDA ann : ann.id # annotation_id)]
               ELSE states,
     reply |-> [type |-> "annotation_delete", data |-> data.data]]

\* an update that replaces every annotation with the id
Image_handle_annotation_update_all(states, p, f, data) ==
    [state |-> IF HasRoom(states, p, f)
               THEN [states EXCEPT ![p][f].annotations =
                        [i \in 1..Len(@) |-> IF @[i].id = data.data.id THEN data.data ELSE @[i]]]
               ELSE states,
     reply |-> [type |-> "annotation_update", data |-> data.data]]

\* ImageHandler._handle_annotation_update: the first annotation with the id is
\* replaced
Image_handle_annotation_update(states, p, f, data) ==
    [state |-> IF HasRoom(states, p, f)
               THEN LET annotation_data == data.data
                        anns == states[p][f].annotations
                        hits == {i \in 1..Len(anns) : anns[i].id = annotation_data.id}
                    IN  IF hits = {} THEN states
                        ELSE LET i == CHOOSE k \in hits : \A j \in hits : k <= j
                             IN  [states EXCEPT ![p][f].annotations[i] = annotation_data]
               ELSE states,
     reply |-> [type |-> "annotation_update", data |-> data.data]]

\* ImageHandler._handle_cursor_move
Image_handle_cursor_move(states, p, f, data) ==
    LET s == IF ~HasRoom(states, p, f) THEN initialize_image(states, p, f) ELSE states
        user_id == data.user_id
        cursor_data == data.data
    IN  [state |-> [s EXCEPT ![p][f].cursors = Put(@, user_id, cursor_data)],
         reply |-> [type |-> "cursor_move",
                    data |-> [x |-> cursor_data.x, y |-> cursor_data.y, user_id |-> user_id]]]

\* ImageHandler.handle_update
Image_handle_update(states, p, f, data) ==
    IF data.update_type = "annotation_add" THEN Image_handle_annotation_add(states, p, f, data)
    ELSE IF data.update_type = "annotation_delete"
         THEN Image_handle_annotation_delete(states, p, f, data)
    ELSE IF data.update_type = "annotation_update"
         THEN Image_handle_annotation_update(states, p, f, data)
    ELSE IF data.update_type = "cursor_move" THEN Image_handle_cursor_move(states, p, f, data)
    ELSE [state |-> states, reply |-> data]

\* the updates an image client sends
ImageUpdates ==
    {Update("annotation_add", [text |-> "a"], "U1")}
        \cup {Update("annotation_delete", [id |-> n], "U1") : n \in AnnotationIds}
        \cup {Update("annotation_update", [id |-> n, text |-> "c"], "U1") : n \in AnnotationIds}
        \cup {Update("cursor_move", CursorData, "U1"), Update("zoom", EmptyMap, "U1")}

\* one call of ImageHandler.handle_update
ImageUpdate(p, f, data) ==
    /\ Len(updates) < UpdateBound
    /\ LET r == Image_handle_update(image_states, p, f, data)
       IN  /\ image_states' = r.state
           /\ reply' = r.reply
    /\ updates' = Logged("image", p, f, data)
    /\ UNCHANGED <<configVars, documentVars, serverVars, storeVars, canvas_states, document_states>>

\* the annotation updates of one image room
NextAnnotate ==
    \E data \in {d \in ImageUpdates : d.update_type \in {"annotation_add", "annotation_delete",
                                                        "annotation_update"}} :
        ImageUpdate("P1", "F1", data)

NextImage == \E t \in ReducerRooms, data \in ImageUpdates : ImageUpdate(t[1], t[2], data)

\* the three reducers of one server, updated for one room
NextReducers ==
    \/ \E data \in CanvasUpdates : CanvasUpdate("P1", "F1", data)
    \/ \E data \in DocumentUpdates : DocumentUpdate("P1", "F1", data)
    \/ \E data \in ImageUpdates : ImageUpdate("P1", "F1", data)

\* ------------------------------------------------------------ specifications
\* no room has reducer state and nothing has been given to handle_update
NoReply == [type |-> "none"]
InitReducers ==
    /\ canvas_states = EmptyMap
    /\ document_states = EmptyMap
    /\ image_states = EmptyMap
    /\ updates = <<>>
    /\ reply = NoReply

\* an empty drawing_history table and no add_drawing_history call in progress
InitStore ==
    /\ drawing_history = <<>>
    /\ writer = [w \in Writers |-> IdleWriter]
    /\ fetched = <<>>

\* no document session has connected
InitDocuments ==
    /\ document_connections = EmptyMap
    /\ document_manager = EmptyMap
    /\ doc_handler = [ws \in WS |-> IdleDocHandler]
    /\ doc_inbox = [ws \in WS |-> <<>>]

\* the server after its module is loaded, with the clients that will connect
\* and the entries the Redis list holds from earlier runs
InitWith(d, enabled, paths, queue) ==
    /\ deployment = d
    /\ clients = paths
    /\ REDIS_ENABLED = enabled
    /\ active_connections = EmptyMap
    /\ handler = [ws \in WS |-> IdleHandler]
    /\ inflight = {}
    /\ failed = [ws \in WS |-> {}]
    /\ inbox = [ws \in WS |-> <<>>]
    /\ nmsg = 0
    /\ tasks = <<>>
    /\ redis_event_buffer = <<>>
    /\ drawing_events_queue = queue
    /\ last_redis_flush_time = 0
    /\ now = 0
    /\ nfail = 0
    /\ InitReducers
    /\ InitStore
    /\ InitDocuments

InitState(d, enabled) == InitWith(d, enabled, IF enabled THEN QPaths ELSE RPaths, <<>>)

Init == InitState("main", FALSE)
InitQueue == InitState("main", TRUE)
InitBackend == InitState("backend", FALSE)

\* With the queue disabled no push task is ever made, and the clock is read
\* only by check_and_flush_redis_buffer, whose flush then finds an empty
\* buffer: the clock is left out.
Next ==
    \/ \E ws \in WS, t \in Paths : Accept(ws, t[1], t[2], t[3])
    \/ \E ws \in WS : PeerClose(ws)
    \/ \E ws \in WS, type \in {"draw", "clear"}, data \in 0..MsgBound :
           RecvBroadcast(ws, type, data)
    \/ \E s \in inflight : SendOk(s)
    \/ \E s \in inflight : SendFail(s)
    \/ \E ws \in WS : GatherDone(ws)
    \/ \E ws \in WS : RecvInit(ws)
    \/ \E ws \in WS : RecvUnknown(ws)
    \/ \E ws \in WS : IdleTimeout(ws)
    \/ \E ws \in WS : HandlerExit(ws)
    \/ \E x \in 0..(Cardinality(Rooms) + 1) : RunFlush(x)

\* With the queue enabled the clients are alone in their rooms (QPaths), so
\* a broadcast finds nobody to send to and no gather is awaited.
NextQueue ==
    \/ \E ws \in WS, t \in Paths : Accept(ws, t[1], t[2], t[3])
    \/ \E ws \in WS : PeerClose(ws)
    \/ \E ws \in WS, type \in {"draw", "clear"}, data \in 0..MsgBound :
           RecvBroadcast(ws, type, data)
    \/ \E ws \in WS : RecvInit(ws)
    \/ \E ws \in WS : RecvUnknown(ws)
    \/ \E ws \in WS : IdleTimeout(ws)
    \/ \E ws \in WS : HandlerExit(ws)
    \/ \E x \in 0..(Cardinality(Rooms) + 1), ok \in BOOLEAN : RunPush(x, ok)
    \/ \E x \in 0..(Cardinality(Rooms) + 1) : RunFlush(x)
    \/ Tick

\* the entries an earlier run left in the Redis list, newest first: one short
\* of the length the trim keeps
OldQueue ==
    [i \in 1..(QUEUE_KEEP - 1) |->
        [project_id |-> "P1", file_id |-> "F1", user_id |-> "U1",
         data |-> i - QUEUE_KEEP, event_type |-> "draw"]]
InitTrim == InitWith("main", TRUE, TPaths, OldQueue)

InitHot == InitWith("main", TRUE, HPaths, <<>>)

\* With the queue enabled and two users in one room, every step of the
\* server can happen.
NextHot ==
    \/ \E ws \in WS, t \in Paths : Accept(ws, t[1], t[2], t[3])
    \/ \E ws \in WS : PeerClose(ws)
    \/ \E ws \in WS, type \in {"draw", "clear"}, data \in 0..MsgBound :
           RecvBroadcast(ws, type, data)
    \/ \E s \in inflight : SendOk(s)
    \/ \E s \in inflight : SendFail(s)
    \/ \E ws \in WS : GatherDone(ws)
    \/ \E ws \in WS : RecvInit(ws)
    \/ \E ws \in WS : RecvUnknown(ws)
    \/ \E ws \in WS : IdleTimeout(ws)
    \/ \E ws \in WS : HandlerExit(ws)
    \/ \E x \in 0..(Cardinality(Rooms) + 1), ok \in BOOLEAN : RunPush(x, ok)
    \/ \E x \in 0..(Cardinality(Rooms) + 1) : RunFlush(x)
    \/ Tick

\* the steps of the document endpoint
NextDocumentEndpoint ==
    \/ \E ws \in WS, t \in Paths : DocAccept(ws, t[1], t[2], t[3])
    \/ \E ws \in WS : DocPeerClose(ws)
    \/ \E ws \in WS, type \in {"text_operation", "cursor_update"} : DocRecvOperation(ws, type)
    \/ \E ws \in WS : DocSendNext(ws)
    \/ \E ws \in WS : DocRecvInit(ws)
    \/ \E ws \in WS : DocRecvUnknown(ws)
    \/ \E ws \in WS : DocRecvMalformed(ws)
    \/ \E ws \in WS : DocHandlerExit(ws)

\* canvas and document sessions of one server, the clock standing still
NextSessions ==
    \/ \E ws \in WS, t \in Paths : Accept(ws, t[1], t[2], t[3])
    \/ \E ws \in WS : PeerClose(ws)
    \/ \E ws \in WS, type \in {"draw", "clear"}, data \in 0..MsgBound :
           RecvBroadcast(ws, type, data)
    \/ \E s \in inflight : SendOk(s)
    \/ \E s \in inflight : SendFail(s)
    \/ \E ws \in WS : GatherDone(ws)
    \/ \E ws \in WS : RecvInit(ws)
    \/ \E ws \in WS : RecvUnknown(ws)
    \/ \E ws \in WS : HandlerExit(ws)
    \/ \E x \in 0..(Cardinality(Rooms) + 1), ok \in BOOLEAN : RunPush(x, ok)
    \/ \E x \in 0..(Cardinality(Rooms) + 1) : RunFlush(x)
    \/ \E ws \in WS : RecvMalformed(ws)
    \/ NextDocumentEndpoint

\* the server of src/main.py with the queue disabled (the default)
Spec == Init /\ [][Next]_vars
\* the server of src/main.py with the queue enabled
SpecQueue == InitQueue /\ [][NextQueue]_vars
\* the server of src/backend/main.py with the queue disabled
SpecBackend == InitBackend /\ [][Next]_vars
\* the server of src/main.py with the queue enabled and one client, the event
\* loop running every task it has been given
InitDrain == InitWith("main", TRUE, TPaths, <<>>)
SpecDrain ==
    /\ InitDrain /\ [][NextQueue]_vars
    /\ WF_vars(\E x \in 0..(Cardinality(Rooms) + 1), ok \in BOOLEAN : RunPush(x, ok))
    /\ WF_vars(\E x \in 0..(Cardinality(Rooms) + 1) : RunFlush(x))
\* the same server when the event loop is fair to the scheduled tasks and to
\* the handler loops (their receive time-outs and their exits) and the clock
\* advances; nothing obliges a client to connect or to send
SpecFair ==
    /\ InitDrain /\ [][NextQueue]_vars
    /\ WF_vars(\E x \in 0..(Cardinality(Rooms) + 1), ok \in BOOLEAN : RunPush(x, ok))
    /\ WF_vars(\E x \in 0..(Cardinality(Rooms) + 1) : RunFlush(x))
    /\ WF_vars(\E ws \in WS : IdleTimeout(ws))
    /\ WF_vars(\E ws \in WS : HandlerExit(ws))
    /\ WF_vars(Tick)
\* the server of src/main.py with the queue enabled, two users of one room and
\* both of its websocket endpoints
SpecSessions == InitHot /\ [][NextSessions]_vars
\* the document endpoint of src/main.py alone, three users of one document
InitDocumentEndpoint == InitWith("main", TRUE, DPaths, <<>>)
SpecDocumentEndpoint == InitDocumentEndpoint /\ [][NextDocumentEndpoint]_vars
\* the canvas reducer of src/backend/handlers/canvas_handler.py
SpecCanvas == Init /\ [][NextCanvas]_vars
\* the document reducer of src/backend/handlers/document_handler.py
SpecDocument == Init /\ [][NextDocument]_vars
\* the image reducer of src/backend/handlers/image_handler.py
SpecImage == Init /\ [][NextImage]_vars
\* the image reducer with one room and longer runs of annotation updates
InitAnnotate == InitWith("main", FALSE, TPaths, <<>>)
SpecAnnotate == InitAnnotate /\ [][NextAnnotate]_vars
\* the three reducers side by side
SpecReducers == Init /\ [][NextReducers]_vars
\* the Store of src/backend/database.py and its writers
SpecStore == Init /\ [][NextStore]_vars
\* the Store with a single writer, whose appends never interleave
SpecAppend == Init /\ [][NextAppend]_vars
\* the server of src/main.py with the queue enabled and a shared room
SpecHot == InitHot /\ [][NextHot]_vars
\* the server of src/main.py with the queue enabled and a nearly full list
SpecTrim == InitTrim /\ [][NextQueue]_vars

\* ================================================================= claims
RoomPresent(p, f) == p \in DOMAIN active_connections /\ f \in DOMAIN active_connections[p]
RegisteredAs(p, f, u, ws) ==
    u \in RoomUsers(active_connections, p, f) /\ active_connections[p][f][u] = ws
NewSends == inflight' \ inflight
Broadcasts == {"draw", "clear"}

\* C1: two messages one session sends in order are sent to every peer in that
\* order: in each transport's inbox the messages of one sender appear by
\* increasing receipt number, and a send still in flight belongs to the
\* broadcast its sender's handler is awaiting (the handler takes no further
\* message before the whole broadcast has returned).
C1_SenderOrderKept ==
    /\ \A b \in WS : \A i, j \in 1..Len(inbox[b]) :
           (i < j /\ inbox[b][i].from = inbox[b][j].from)
               => inbox[b][i].seq < inbox[b][j].seq
    /\ \A s \in inflight :
           /\ handler[s.msg.from].pc = "gather"
           /\ handler[s.msg.from].data = s.msg

C1_Witness ==
    \E b \in WS : \E i, j \in 1..Len(inbox[b]) :
        /\ i < j
        /\ inbox[b][i].from = inbox[b][j].from
        /\ inbox[b][i].from # b
        /\ inbox[b][i].type = "draw" /\ inbox[b][j].type = "draw"

\* C2: a draw or clear from a session starts exactly one send of that message
\* to each transport registered in the sender's room under another user, none
\* to the sender, and leaves the registry as it is; with nobody else
\* registered it sends nothing and changes nothing of the registry, the sends
\* in flight or the inboxes.  No transport is sent its own broadcast and none
\* is sent a broadcast twice.
C2_Post(ws, type, data) ==
    LET h == handler[ws]
        others == {w \in WS : \E u \in Users \ {h.user_id} :
                                  RegisteredAs(h.project_id, h.file_id, u, w)}
    IN  /\ inflight \subseteq inflight'
        /\ {s.dst : s \in NewSends} = others
        /\ Cardinality(NewSends) = Cardinality(others)
        /\ \A s \in NewSends : s.msg = Message(ws, type, data) /\ s.dst # ws
                                 /\ s.user # h.user_id
        /\ active_connections' = active_connections
        /\ others = {} => (inflight' = inflight /\ inbox' = inbox /\ handler' = handler)

C2_OneSendToEachOther ==
    /\ [][\A ws \in WS, type \in Broadcasts, data \in 0..MsgBound :
              RecvBroadcast(ws, type, data) => C2_Post(ws, type, data)]_vars
    /\ [](\A b \in WS : \A i \in 1..Len(inbox[b]) :
              inbox[b][i].type \in Broadcasts =>
                  /\ inbox[b][i].from # b
                  /\ \A j \in 1..Len(inbox[b]) : j # i => inbox[b][j] # inbox[b][i])

C2_Witness ==
    \E w1, w2 \in WS :
        /\ handler[w1].pc = "receive" /\ handler[w2].pc = "receive"
        /\ <<handler[w1].project_id, handler[w1].file_id, handler[w1].user_id>> = <<"P1", "F1", "U1">>
        /\ <<handler[w2].project_id, handler[w2].file_id, handler[w2].user_id>> = <<"P1", "F1", "U2">>
        /\ Len(inbox[w2]) = 1
        /\ inbox[w2][1].type = "draw" /\ inbox[w2][1].from = w1 /\ inbox[w2][1].data # 0
        /\ inbox[w1] = <<>>
        /\ nmsg = 1

\* C3: when a send of a broadcast fails, the other sends of that broadcast
\* have all been made when the broadcast returns, the users whose send failed
\* are no longer registered in the room, and the handler goes on to its next
\* receive (nothing is raised).
C3_FailedRecipientEvicted ==
    [][\A ws \in WS :
          (handler[ws].pc = "gather" /\ handler'[ws].pc # "gather" /\ failed[ws] # {}) =>
              /\ \A s \in inflight : s.msg # handler[ws].data
              /\ handler'[ws].pc = "receive"
              /\ \A u \in failed[ws] :
                     u \notin RoomUsers(active_connections',
                                        handler[ws].project_id, handler[ws].file_id)]_vars

\* C8: connect registers the new transport under its (room, user) key in place
\* of whatever was there and touches no other key; a broadcast sends only to
\* the transport registered for a user at that moment, one per user; and a
\* transport that has lost its registration never gets one back.
C8_ReconnectReplaces ==
    [][/\ \A ws \in WS :
              (handler[ws].pc = "idle" /\ handler'[ws].pc # "idle") =>
                  LET h == handler'[ws]
                  IN  /\ h.user_id \in RoomUsers(active_connections', h.project_id, h.file_id)
                      /\ active_connections'[h.project_id][h.file_id][h.user_id] = ws
                      /\ \A q \in Projects, g \in Files, v \in Users :
                             <<q, g, v>> # <<h.project_id, h.file_id, h.user_id>> =>
                                 /\ v \in RoomUsers(active_connections', q, g)
                                        <=> v \in RoomUsers(active_connections, q, g)
                                 /\ v \in RoomUsers(active_connections, q, g) =>
                                        active_connections'[q][g][v] = active_connections[q][g][v]
       /\ \A s \in NewSends :
              /\ RegisteredAs(handler[s.msg.from].project_id, handler[s.msg.from].file_id,
                              s.user, s.dst)
              /\ \A s2 \in NewSends : s2.user = s.user => s2 = s
       /\ \A ws \in WS :
              (handler[ws].pc # "idle" /\ ws \notin Registered) => ws \notin Registered']_vars

C8_Witness ==
    \E w1, w2 \in WS :
        /\ w1 < w2
        /\ handler[w1].pc = "receive" /\ handler[w1].open
        /\ handler[w2].pc = "receive" /\ handler[w2].open
        /\ <<handler[w1].project_id, handler[w1].file_id, handler[w1].user_id>>
               = <<handler[w2].project_id, handler[w2].file_id, handler[w2].user_id>>
        /\ RegisteredAs(handler[w2].project_id, handler[w2].file_id, handler[w2].user_id, w2)
        /\ inbox[w1] = <<>>
        /\ \E i \in 1..Len(inbox[w2]) : inbox[w2][i].type = "draw"

\* C9: whenever no closed transport is waiting for its handler's clean-up, a
\* room is in active_connections if and only if a session connected to it is
\* active: its transport is open and its handler has not run its clean-up.
Active(ws) == Running(ws) /\ handler[ws].open

C9_RoomIffActiveSession ==
    (\A ws \in WS : Running(ws) => handler[ws].open) =>
        \A p \in Projects, f \in Files :
            RoomPresent(p, f) <=>
                \E ws \in WS : Active(ws) /\ handler[ws].project_id = p
                                          /\ handler[ws].file_id = f

\* C10: no file map and no project map of the registry is ever empty; when a
\* handler has run its clean-up its user has no entry in its room; and a
\* broadcast sends only to users registered in the sender's room, never to a
\* transport whose handler has finished.
C10_NoEmptyStructure ==
    \A p \in DOMAIN active_connections :
        /\ DOMAIN active_connections[p] # {}
        /\ \A f \in DOMAIN active_connections[p] : DOMAIN active_connections[p][f] # {}

C10_DisconnectRemoves ==
    /\ []C10_NoEmptyStructure
    /\ [][/\ \A ws \in WS :
                 (Running(ws) /\ handler'[ws].pc = "done") =>
                     handler[ws].user_id \notin
                         RoomUsers(active_connections', handler[ws].project_id,
                                   handler[ws].file_id)
          /\ \A s \in NewSends :
                 /\ s.user \in RoomUsers(active_connections, handler[s.msg.from].project_id,
                                         handler[s.msg.from].file_id)
                 /\ handler[s.dst].pc # "done"]_vars

C10_Witness ==
    /\ \E ws \in WS : handler[ws].pc = "done"
    /\ DOMAIN active_connections = {"P1"}
    /\ DOMAIN active_connections["P1"] = {"F2"}
    /\ \E ws \in WS : Active(ws) /\ handler[ws].file_id = "F1"

\* ------------------------------------------------------ claims on the batcher
Commands == 0..(Cardinality(Rooms) + 1)
\* the events buffered for a room, oldest first
Buffered(buf, p, f) ==
    IF p \in OKeys(buf) /\ f \in OKeys(OGet(buf, p)) THEN OGet(OGet(buf, p), f) ELSE <<>>
FlushedRooms(buf) == {r \in Rooms : Buffered(buf, r[1], r[2]) # <<>>}
\* the events a queue entry carries
EventsOf(entry) ==
    IF entry.event_type = "batch"
    THEN {entry.events[m] : m \in 1..Len(entry.events)}
    ELSE {entry}
InQueue(q, ev) == \E j \in 1..Len(q) : ev \in EventsOf(q[j])
IntervalElapsed == now - last_redis_flush_time >= REDIS_FLUSH_INTERVAL
HeadIsPush(type) ==
    tasks # <<>> /\ Head(tasks).kind = "push" /\ Head(tasks).event.event_type = type
\* the queue grew at its head by k entries
Pushed(k) ==
    /\ Len(drawing_events_queue') = Len(drawing_events_queue) + k
    /\ SubSeq(drawing_events_queue', k + 1, Len(drawing_events_queue'))
           = drawing_events_queue

\* C4: a clear is handed to push_to_redis_queue as a task of its own; when
\* that task runs and no queue command fails, whatever the time, it leaves
\* the buffer empty and the queue with the clear event itself at its head,
\* pushed after an entry for every event that was buffered.  A clear is never
\* in a buffer and never inside a batch; a draw of the room received after the
\* clear is nearer the head of the queue than the clear; and as long as no
\* queue command has failed, the draws of the room received before a queued
\* clear are behind it in the queue and none of them is still buffered.
C4_ClearPost(e) ==
    /\ redis_event_buffer' = <<>>
    /\ drawing_events_queue'[1] = e
    /\ Pushed(Cardinality(FlushedRooms(redis_event_buffer)) + 1)
    /\ \A r \in Rooms :
           \A i \in 1..Len(Buffered(redis_event_buffer, r[1], r[2])) :
               \E j \in 2..Len(drawing_events_queue') :
                   Buffered(redis_event_buffer, r[1], r[2])[i]
                       \in EventsOf(drawing_events_queue'[j])

C4_NeverBuffered ==
    /\ \A r \in Rooms : \A i \in 1..Len(Buffered(redis_event_buffer, r[1], r[2])) :
           Buffered(redis_event_buffer, r[1], r[2])[i].event_type = "draw"
    /\ \A j \in 1..Len(drawing_events_queue) :
           drawing_events_queue[j].event_type = "batch" =>
               \A d \in EventsOf(drawing_events_queue[j]) : d.event_type = "draw"

C4_Order ==
    \A i \in 1..Len(drawing_events_queue) :
        LET c == drawing_events_queue[i]
            OfRoom(d) == /\ d.event_type = "draw"
                         /\ d.project_id = c.project_id /\ d.file_id = c.file_id
        IN  c.event_type = "clear" =>
                /\ \A j \in 1..Len(drawing_events_queue) :
                       \A d \in EventsOf(drawing_events_queue[j]) :
                           OfRoom(d) => /\ d.data > c.seq => j < i
                                        /\ (nfail = 0 /\ d.data < c.seq) => j > i
                /\ LET b == Buffered(redis_event_buffer, c.project_id, c.file_id)
                   IN  nfail = 0 => \A k \in 1..Len(b) : b[k].data > c.seq

C4_ClearFlushesThenStandsAlone ==
    /\ [][/\ \A ws \in WS :
                 RecvBroadcast(ws, "clear", 0) =>
                     tasks' = Append(tasks,
                         [kind |-> "push",
                          event |-> [project_id |-> handler[ws].project_id,
                                     file_id |-> handler[ws].file_id,
                                     user_id |-> handler[ws].user_id,
                                     seq |-> nmsg + 1, event_type |-> "clear"]])
          /\ \A x \in Commands, ok \in BOOLEAN :
                 (RunPush(x, ok) /\ HeadIsPush("clear") /\ nfail' = nfail)
                     => C4_ClearPost(Head(tasks).event)]_vars
    /\ [](C4_NeverBuffered /\ C4_Order)

C4_Witness ==
    /\ Len(drawing_events_queue) = 3
    /\ drawing_events_queue[2].event_type = "clear"
    /\ drawing_events_queue[3].event_type = "draw"
    /\ drawing_events_queue[1].event_type = "draw"
    /\ drawing_events_queue[3].data < drawing_events_queue[2].seq
    /\ drawing_events_queue[1].data > drawing_events_queue[2].seq
    /\ \A j \in 1..3 : drawing_events_queue[j].project_id = "P1"
                       /\ drawing_events_queue[j].file_id = "F1"
    /\ last_redis_flush_time = 0
    /\ nfail = 0

\* C5: an event leaves the buffer only by being pushed to the queue.  When an
\* lpush of a flush raises, the task that ran the flush still completes with
\* no handler disturbed, the rooms before the failing one have been pushed,
\* and the buffer the flush worked on is left as it was, so that the next
\* flush pushes the same events again.
C5_FlushInput ==
    IF HeadIsPush("draw") THEN AddToBuffer(redis_event_buffer, Head(tasks).event)
    ELSE redis_event_buffer

C5_FailedPost(x) ==
    /\ redis_event_buffer' = C5_FlushInput
    /\ Pushed(x)
    /\ tasks' = Tail(tasks)
    /\ handler' = handler /\ active_connections' = active_connections

C5_FailedFlushKeepsBuffer ==
    [][/\ \A r \in Rooms : \A i \in 1..Len(Buffered(redis_event_buffer, r[1], r[2])) :
              LET ev == Buffered(redis_event_buffer, r[1], r[2])[i]
              IN  \/ \E k \in 1..Len(Buffered(redis_event_buffer', r[1], r[2])) :
                         Buffered(redis_event_buffer', r[1], r[2])[k] = ev
                  \/ InQueue(SubSeq(drawing_events_queue', 1,
                                    Len(drawing_events_queue') - Len(drawing_events_queue)),
                             ev)
       /\ \A x \in Commands :
              (RunFlush(x) /\ nfail' > nfail
                   /\ x < Cardinality(FlushedRooms(C5_FlushInput)))
                  => C5_FailedPost(x)
       /\ \A x \in Commands :
              (RunPush(x, TRUE) /\ nfail' > nfail
                   /\ x < Cardinality(FlushedRooms(C5_FlushInput)))
                  => C5_FailedPost(x + (IF HeadIsPush("clear") THEN 1 ELSE 0))]_vars

C5_Witness ==
    /\ nfail = 1
    /\ redis_event_buffer = <<>>
    /\ Len(drawing_events_queue) = 3
    /\ drawing_events_queue[1].file_id # drawing_events_queue[2].file_id
    /\ drawing_events_queue[3] = drawing_events_queue[2]
    /\ \A j \in 1..3 : drawing_events_queue[j].event_type = "draw"

\* C6: a flush in which no queue command fails adds to the queue exactly one
\* entry for each room that has buffered events and nothing else (but the
\* clear that caused it): the event itself when the room has one, otherwise
\* an envelope with event_type "batch", the room's project_id and file_id,
\* count the number of events and events the buffered events in the order
\* they were added; afterwards the buffer is empty.
C6_EntryFor(entry, p, f, evs) ==
    IF Len(evs) = 1 THEN entry = evs[1]
    ELSE entry = [event_type |-> "batch", project_id |-> p, file_id |-> f,
                  count |-> Len(evs), events |-> evs]

C6_Post(buf, skip) ==
    LET new == (1 + skip)..(Cardinality(FlushedRooms(buf)) + skip)
    IN  /\ Pushed(Cardinality(FlushedRooms(buf)) + skip)
        /\ \A r \in FlushedRooms(buf) :
               /\ Cardinality({i \in new : /\ drawing_events_queue'[i].project_id = r[1]
                                           /\ drawing_events_queue'[i].file_id = r[2]}) = 1
               /\ \E i \in new : C6_EntryFor(drawing_events_queue'[i], r[1], r[2],
                                             Buffered(buf, r[1], r[2]))
        /\ redis_event_buffer' = <<>>

C6_OneEntryPerRoom ==
    [][/\ \A x \in Commands :
              (RunFlush(x) /\ nfail' = nfail
                   /\ (Head(tasks).kind = "flush" \/ IntervalElapsed))
                  => C6_Post(redis_event_buffer, 0)
       /\ \A x \in Commands :
              (RunPush(x, TRUE) /\ nfail' = nfail
                   /\ (HeadIsPush("clear") \/ IntervalElapsed))
                  => C6_Post(C5_FlushInput, IF HeadIsPush("clear") THEN 1 ELSE 0)]_vars

C6_Witness ==
    /\ nfail = 0
    /\ redis_event_buffer = <<>>
    /\ Len(drawing_events_queue) = 2
    /\ \E i, j \in 1..2 :
           /\ drawing_events_queue[i].event_type = "batch"
           /\ drawing_events_queue[i].count = 2
           /\ Len(drawing_events_queue[i].events) = 2
           /\ drawing_events_queue[j].event_type = "draw"
           /\ drawing_events_queue[j].file_id # drawing_events_queue[i].file_id

\* C7: a draw with data received in a room with nobody else in it hands one
\* push task with that data to the batcher, and a draw without data hands
\* none.  A push task of a draw that runs before the flush interval has
\* elapsed puts the event at the end of its room's buffer, leaves the other
\* rooms' buffers alone and pushes nothing.  A flush check that runs before
\* the interval has elapsed changes nothing; one that runs after it, with no
\* queue command failing, empties the buffer and pushes one entry for each
\* room that had n buffered events: an envelope with count n and those events
\* when n > 1.  The events buffered for a room are in the order of receipt.
C7_Buffers(e) ==
    /\ drawing_events_queue' = drawing_events_queue
    /\ \A r \in Rooms :
           Buffered(redis_event_buffer', r[1], r[2]) =
               IF r = <<e.project_id, e.file_id>>
               THEN Append(Buffered(redis_event_buffer, r[1], r[2]), e)
               ELSE Buffered(redis_event_buffer, r[1], r[2])

C7_CheckPost ==
    IF IntervalElapsed
    THEN nfail' = nfail =>
             /\ redis_event_buffer' = <<>>
             /\ Pushed(Cardinality(FlushedRooms(redis_event_buffer)))
             /\ \A r \in FlushedRooms(redis_event_buffer) :
                    LET evs == Buffered(redis_event_buffer, r[1], r[2])
                    IN  \E i \in 1..Cardinality(FlushedRooms(redis_event_buffer)) :
                            LET entry == drawing_events_queue'[i]
                            IN  IF Len(evs) > 1
                                THEN /\ entry.event_type = "batch"
                                     /\ entry.count = Len(evs)
                                     /\ entry.events = evs
                                ELSE entry = evs[1]
    ELSE /\ drawing_events_queue' = drawing_events_queue
         /\ redis_event_buffer' = redis_event_buffer

C7_BufferedUntilInterval ==
    /\ [][/\ \A ws \in WS, data \in 0..MsgBound :
                 RecvBroadcast(ws, "draw", data) =>
                     tasks' = IF data = 0 THEN tasks
                              ELSE Append(tasks,
                                   [kind |-> "push",
                                    event |-> [project_id |-> handler[ws].project_id,
                                               file_id |-> handler[ws].file_id,
                                               user_id |-> handler[ws].user_id,
                                               data |-> data, event_type |-> "draw"]])
          /\ \A x \in Commands :
                 (RunPush(x, TRUE) /\ HeadIsPush("draw") /\ ~IntervalElapsed)
                     => C7_Buffers(Head(tasks).event)
          /\ \A x \in Commands :
                 (RunFlush(x) /\ Head(tasks).kind = "check") => C7_CheckPost]_vars
    /\ [](\A r \in Rooms :
              LET b == Buffered(redis_event_buffer, r[1], r[2])
              IN  \A i, j \in 1..Len(b) : i < j => b[i].data < b[j].data)

C7_Witness ==
    /\ Len(drawing_events_queue) = 1
    /\ drawing_events_queue[1].event_type = "batch"
    /\ drawing_events_queue[1].count = 3
    /\ drawing_events_queue[1].project_id = "P1" /\ drawing_events_queue[1].file_id = "F1"
    /\ redis_event_buffer = <<>>
    /\ last_redis_flush_time = REDIS_FLUSH_INTERVAL
    /\ nfail = 0
    /\ \A ws \in WS : handler[ws].pc # "done"

\* C11: in every registry the server reaches, disconnecting a (project, file,
\* user) twice gives the registry that disconnecting it once gives, and
\* disconnecting a user who is not registered there (the room or the project
\* may be missing too) gives the registry back unchanged; the clean-up of a
\* handler whose user was already evicted changes nothing of the registry.
C11_Twice ==
    \A p \in Projects, f \in Files, u \in Users :
        LET once == Disconnect(active_connections, p, f, u)
        IN  /\ Disconnect(once, p, f, u) = once
            /\ u \notin RoomUsers(active_connections, p, f) => once = active_connections

C11_DisconnectIdempotent ==
    /\ []C11_Twice
    /\ [][\A ws \in WS :
              (/\ Running(ws) /\ handler'[ws].pc = "done"
               /\ handler[ws].user_id \notin
                      RoomUsers(active_connections, handler[ws].project_id,
                                handler[ws].file_id))
                  => active_connections' = active_connections]_vars

C11_Witness ==
    \E ws \in WS :
        /\ Running(ws) /\ ~handler[ws].open
        /\ RoomPresent(handler[ws].project_id, handler[ws].file_id)
        /\ handler[ws].user_id \notin
               RoomUsers(active_connections, handler[ws].project_id, handler[ws].file_id)
        /\ \A w \in WS \ {ws} :
               Running(w) => <<handler[w].project_id, handler[w].file_id, handler[w].user_id>>
                               # <<handler[ws].project_id, handler[ws].file_id,
                                   handler[ws].user_id>>

\* C12: the Redis list never holds more than the 5000 entries the trim keeps.
C12_QueueBounded == Len(drawing_events_queue) <= QUEUE_KEEP

\* C13: with the queue disabled (the only way its client is absent), a flush
\* leaves the buffer empty and the queue as it was, whatever the buffer held,
\* and raises nothing; the buffer is empty and the queue untouched in every
\* state the server reaches.
C13_Event(f, n) ==
    [project_id |-> "P1", file_id |-> f, user_id |-> "U1", data |-> n, event_type |-> "draw"]
C13_Buffers ==
    {<<>>,
     AddToBuffer(<<>>, C13_Event("F1", 1)),
     AddToBuffer(AddToBuffer(<<>>, C13_Event("F1", 1)), C13_Event("F1", 2)),
     AddToBuffer(AddToBuffer(<<>>, C13_Event("F1", 1)), C13_Event("F2", 2))}

C13_FlushDrops ==
    ~REDIS_ENABLED =>
        /\ redis_event_buffer = <<>>
        /\ drawing_events_queue = <<>>
        /\ \A buf \in C13_Buffers, x \in Commands :
               LET r == FlushRedisBuffer(buf, drawing_events_queue,
                                         last_redis_flush_time, now, x)
               IN  /\ r.buffer = <<>>
                   /\ r.queue = drawing_events_queue
                   /\ r.raised = 0

C13_DisabledFlushEmpties ==
    /\ []C13_FlushDrops
    /\ [][\A x \in Commands :
              (RunFlush(x) /\ ~REDIS_ENABLED) =>
                  /\ redis_event_buffer' = <<>>
                  /\ drawing_events_queue' = drawing_events_queue
                  /\ nfail' = nfail]_vars

C13_Witness ==
    /\ ~REDIS_ENABLED
    /\ \E ws \in WS : handler[ws].pc = "done"
    /\ tasks = <<>>
    /\ redis_event_buffer = <<>>

\* C14: a persistence event is handed to the batcher only when no send of its
\* message is in flight or still to be started, and no send of a message is
\* in flight while its event is with the batcher; with the queue enabled and
\* its commands failing, a broadcast still starts exactly one send to each
\* other user of the room; a step in which a queue command raises changes
\* nothing of the registry, the handlers, the sends in flight and the
\* transports; and no transport is ever sent anything but draw, clear and
\* connected messages.
C14_Id(e) == IF e.event_type = "clear" THEN e.seq ELSE e.data

C14_BroadcastDone ==
    /\ \A i \in 1..Len(tasks) :
           tasks[i].kind = "push" =>
               \A s \in inflight : s.msg.seq # C14_Id(tasks[i].event)
    /\ \A r \in Rooms : \A i \in 1..Len(Buffered(redis_event_buffer, r[1], r[2])) :
           \A s \in inflight :
               s.msg.seq # C14_Id(Buffered(redis_event_buffer, r[1], r[2])[i])
    /\ \A j \in 1..Len(drawing_events_queue) :
           \A e \in EventsOf(drawing_events_queue[j]) :
               \A s \in inflight : s.msg.seq # C14_Id(e)
    /\ \A ws \in WS : \A i \in 1..Len(inbox[ws]) :
           inbox[ws][i].type \in {"draw", "clear", "connected"}

C14_BroadcastBeforePersistence ==
    /\ []C14_BroadcastDone
    /\ [][/\ \A ws \in WS, type \in Broadcasts, data \in 0..MsgBound :
                 RecvBroadcast(ws, type, data) => C2_Post(ws, type, data)
          /\ (Len(tasks') > Len(tasks) /\ tasks'[Len(tasks')].kind = "push") =>
                 \A s \in inflight \cup inflight' :
                     s.msg.seq # C14_Id(tasks'[Len(tasks')].event)
          /\ nfail' > nfail =>
                 /\ active_connections' = active_connections
                 /\ handler' = handler
                 /\ inflight' = inflight
                 /\ inbox' = inbox
                 /\ failed' = failed]_vars

C14_Witness ==
    /\ REDIS_ENABLED
    /\ nfail = 1
    /\ tasks = <<>>
    /\ drawing_events_queue = <<>>
    /\ \E w1, w2 \in WS :
           /\ handler[w1].pc = "receive" /\ handler[w2].pc = "receive"
           /\ handler[w1].open /\ handler[w2].open
           /\ RegisteredAs("P1", "F1", "U1", w1)
           /\ RegisteredAs("P1", "F1", "U2", w2)
           /\ \E i \in 1..Len(inbox[w2]) :
                  inbox[w2][i].type = "clear" /\ inbox[w2][i].from = w1

\* C15: the clean-up of a handler starts a flush task whatever the time; a
\* task once started stays until it has run (nothing cancels it) and does
\* run; the flush task flushes whether or not the interval has elapsed, and
\* when no queue command fails it leaves the buffer empty with every event
\* that was buffered in the entries it pushed.
C15_FlushPost ==
    /\ redis_event_buffer' = <<>>
    /\ Pushed(Cardinality(FlushedRooms(redis_event_buffer)))
    /\ \A r \in Rooms : \A i \in 1..Len(Buffered(redis_event_buffer, r[1], r[2])) :
           InQueue(SubSeq(drawing_events_queue', 1,
                          Cardinality(FlushedRooms(redis_event_buffer))),
                   Buffered(redis_event_buffer, r[1], r[2])[i])

C15_FlushOnExit ==
    /\ [][/\ \A ws \in WS :
                 (Running(ws) /\ handler'[ws].pc = "done") =>
                     tasks' = Append(tasks, [kind |-> "flush"])
          /\ \/ tasks' = tasks
             \/ tasks # <<>> /\ tasks' = Tail(tasks)
             \/ Len(tasks') = Len(tasks) + 1 /\ SubSeq(tasks', 1, Len(tasks)) = tasks
          /\ \A x \in Commands :
                 (RunFlush(x) /\ Head(tasks).kind = "flush" /\ nfail' = nfail)
                     => C15_FlushPost]_vars
    /\ (\E i \in 1..Len(tasks) : tasks[i].kind = "flush")
           ~> (\A i \in 1..Len(tasks) : tasks[i].kind # "flush")

C15_Witness ==
    /\ \A ws \in WS : handler[ws].pc \in {"idle", "done"}
    /\ \E ws \in WS : handler[ws].pc = "done"
    /\ tasks = <<>>
    /\ redis_event_buffer = <<>>
    /\ now = 0
    /\ nfail = 0
    /\ Len(drawing_events_queue) = 1
    /\ drawing_events_queue[1].event_type = "batch"

\* the largest sequence_number among the rows of file id f, 0 when it has none
MaxOf(table, f) ==
    LET nums == {table[i].sequence_number : i \in {j \in 1..Len(table) : table[j].file_id = f}}
    IN  IF nums = {} THEN 0 ELSE CHOOSE m \in nums : \A n \in nums : m >= n

\* the sequence numbers of file id f in insertion order
NumbersOf(table, f) ==
    LET rows == SelectSeq(table, LAMBDA r : r.file_id = f)
    IN  [i \in 1..Len(rows) |-> rows[i].sequence_number]

\* an append that no other append interleaves with adds one row, numbered one
\* above the file's maximum, so n of them from maximum m give m+1 .. m+n
C16_Numbering ==
    /\ InsertRow(1) =>
          /\ Len(drawing_history') = Len(drawing_history) + 1
          /\ drawing_history'[Len(drawing_history')].sequence_number
                = MaxOf(drawing_history, writer[1].file_id) + 1
          /\ drawing_history'[Len(drawing_history')].file_id = writer[1].file_id
    /\ \A f \in Files : NumbersOf(drawing_history', f)
                           = [i \in 1..Len(NumbersOf(drawing_history', f)) |-> i]

\* get_file_history returns the entries of the file in ascending sequence order
C16_Fetch ==
    \A t \in StoreFiles, accepted \in BOOLEAN :
        GetFileHistory(t[1], t[2], accepted) =>
            LET rows == SelectSeq(drawing_history,
                                  LAMBDA r : r.file_id = t[2] /\ r.project_id = t[1])
            IN  /\ \A i, j \in 1..Len(rows) :
                       i < j => rows[i].sequence_number < rows[j].sequence_number
                /\ fetched' = [i \in 1..Len(rows) |->
                                  [userId |-> rows[i].user_id, data |-> rows[i].drawing_data]]

\* C16: n consecutive appends that nothing interleaves with, to a file whose
\* maximum sequence number is m, create the entries m+1 .. m+n in that order,
\* and get_file_history returns the file's entries in ascending sequence
\* order.  (The numbering holds; the fetch returns an empty list whenever the
\* query builder rejects the asc keyword.)
C16_AppendsNumberedAndFetched == [][C16_Numbering /\ C16_Fetch]_vars

\* C17: in every state of the Store the sequence numbers of a file are
\* strictly increasing in insertion order, two writers interleaving between
\* the read of the maximum and the insert included.  (Two writers that both
\* read the maximum m both insert m+1.)
C17_StrictlyIncreasing ==
    \A i, j \in 1..Len(drawing_history) :
        (i < j /\ drawing_history[i].file_id = drawing_history[j].file_id)
            => drawing_history[i].sequence_number < drawing_history[j].sequence_number

\* the entries of the log for one handler and one room
LogOf(log, h, p, f) ==
    SelectSeq(log, LAMBDA e : e.handler = h /\ e.project_id = p /\ e.file_id = f)

\* the payloads of the draws a room received after its most recent clear
DrawsSinceClear(log, p, f) ==
    LET l == LogOf(log, "canvas", p, f)
        clears == {i \in 1..Len(l) : l[i].data.update_type = "clear"}
        last == IF clears = {} THEN 0 ELSE CHOOSE i \in clears : \A j \in clears : i >= j
        draws == SelectSeq(SubSeq(l, last + 1, Len(l)), LAMBDA e : e.data.update_type = "draw")
    IN  [i \in 1..Len(draws) |-> draws[i].data.data]

\* the strokes the canvas reducer holds for a room
StrokesOf(states, p, f) == IF HasRoom(states, p, f) THEN states[p][f].strokes ELSE <<>>

C18_Step(p, f, data) ==
    /\ data.update_type = "cursor_move" => canvas_states' = canvas_states
    /\ data.update_type = "draw" => reply' = [type |-> "draw", data |-> data.data]
    /\ data.update_type = "clear" => reply' = [type |-> "clear", data |-> EmptyMap]
    /\ \A t \in Rooms : StrokesOf(canvas_states', t[1], t[2]) = DrawsSinceClear(updates', t[1], t[2])

\* C18: after any sequence of handle_update calls a room's strokes are the
\* payloads of the draws received since its most recent clear, in receipt
\* order; a cursor_move changes no state; a draw returns {type: draw, data:
\* stroke} and a clear returns {type: clear, data: {}}.
C18_StrokesSinceClear ==
    [][\A t \in ReducerRooms, data \in CanvasUpdates :
           CanvasUpdate(t[1], t[2], data) => C18_Step(t[1], t[2], data)]_vars

\* a room was drawn on, cleared, had a cursor move and was drawn on again: it
\* holds the one stroke drawn after the clear
C18_Witness ==
    LET l == LogOf(updates, "canvas", "P1", "F1")
    IN  /\ Len(l) = 4
        /\ l[1].data.update_type = "draw"
        /\ l[2].data.update_type = "clear"
        /\ l[3].data.update_type = "cursor_move"
        /\ l[4].data.update_type = "draw"
        /\ StrokesOf(canvas_states, "P1", "F1") = <<l[4].data.data>>
        /\ "type" \in DOMAIN reply /\ reply.type = "draw"

\* the content of the last text_change a room received, "" when it had none
LastContent(log, p, f) ==
    LET l == SelectSeq(LogOf(log, "document", p, f),
                       LAMBDA e : e.data.update_type = "text_change")
    IN  IF l = <<>> THEN "" ELSE l[Len(l)].data.data.content

ContentOf(states, p, f) == IF HasRoom(states, p, f) THEN states[p][f].content ELSE ""
CursorsOf(states, p, f) == IF HasRoom(states, p, f) THEN states[p][f].cursors ELSE EmptyMap
SelectionsOf(states, p, f) ==
    IF HasRoom(states, p, f) THEN states[p][f].selections ELSE EmptyMap

C19_Step(p, f, data) ==
    /\ \A t \in Rooms : ContentOf(document_states', t[1], t[2]) = LastContent(updates', t[1], t[2])
    /\ data.update_type = "text_change" =>
          /\ \A t \in Rooms :
                /\ CursorsOf(document_states', t[1], t[2]) = CursorsOf(document_states, t[1], t[2])
                /\ SelectionsOf(document_states', t[1], t[2])
                      = SelectionsOf(document_states, t[1], t[2])
          /\ reply' = [type |-> "text_change", data |-> data.data]

\* C19: a document's content is the content of the last text_change the room
\* received; a text_change leaves every cursor and selection as it was and
\* returns the change it was given.
C19_LastWriteWins ==
    [][\A t \in ReducerRooms, data \in DocumentUpdates :
           DocumentUpdate(t[1], t[2], data) => C19_Step(t[1], t[2], data)]_vars

\* a room got a text change, a cursor and a selection, then a second text
\* change: it holds the second content and still the cursor and the selection
C19_Witness ==
    LET l == LogOf(updates, "document", "P1", "F1")
    IN  /\ Len(l) = 4
        /\ l[1].data.update_type = "text_change" /\ l[1].data.data.content = "a"
        /\ l[2].data.update_type = "cursor_change"
        /\ l[3].data.update_type = "selection_change"
        /\ l[4].data.update_type = "text_change" /\ l[4].data.data.content = "b"
        /\ ContentOf(document_states, "P1", "F1") = "b"
        /\ DOMAIN CursorsOf(document_states, "P1", "F1") # {}
        /\ DOMAIN SelectionsOf(document_states, "P1", "F1") # {}

AnnotationsOf(states, p, f) == IF HasRoom(states, p, f) THEN states[p][f].annotations ELSE <<>>

\* the room has received no annotation_delete
NeverDeleted(log, p, f) ==
    \A i \in 1..Len(log) :
        ~(/\ log[i].handler = "image" /\ log[i].project_id = p /\ log[i].file_id = f
          /\ log[i].data.update_type = "annotation_delete")

C20_Step(p, f, data) ==
    LET before == AnnotationsOf(image_states, p, f)
        after == AnnotationsOf(image_states', p, f)
    IN  /\ data.update_type = "annotation_add" =>
              /\ Len(after) = Len(before) + 1
              /\ SubSeq(after, 1, Len(before)) = before
              /\ after[Len(after)].id = Len(before)
              /\ after[Len(after)].text = data.data.text
              /\ reply' = [type |-> "annotation_add", data |-> after[Len(after)]]
        /\ NeverDeleted(updates', p, f) => \A i \in 1..Len(after) : after[i].id = i - 1

\* C20: annotation_add gives the new annotation the next local integer id, the
\* number of annotations the room's list holds, appends it at the end of the
\* list and returns the annotation with that id; the adds to a room that
\* starts empty get the ids 0, 1, ..., k-1 in order.
C20_AddAssignsNextId ==
    [][\A t \in ReducerRooms, data \in ImageUpdates :
           ImageUpdate(t[1], t[2], data) => C20_Step(t[1], t[2], data)]_vars

\* three adds to an empty room: ids 0, 1, 2, the last one returned
C20_Witness ==
    LET l == LogOf(updates, "image", "P1", "F1")
        anns == AnnotationsOf(image_states, "P1", "F1")
    IN  /\ Len(l) = 3
        /\ \A i \in 1..3 : l[i].data.update_type = "annotation_add"
        /\ Len(anns) = 3
        /\ anns[1].id = 0 /\ anns[2].id = 1 /\ anns[3].id = 2
        /\ "type" \in DOMAIN reply /\ reply.type = "annotation_add" /\ reply.data.id = 2

\* the image reducer's state after the updates of a log, from no state
RECURSIVE ImageReplay(_)
ImageReplay(log) ==
    IF log = <<>> THEN EmptyMap
    ELSE LET e == log[Len(log)]
         IN  Image_handle_update(ImageReplay(SubSeq(log, 1, Len(log) - 1)),
                                 e.project_id, e.file_id, e.data).state

\* the last three updates were an add, an update with the id the add
\* returned and a delete with that id
RoundTripDone(log, p, f) ==
    LET n == Len(log)
        before == AnnotationsOf(ImageReplay(SubSeq(log, 1, n - 3)), p, f)
    IN  /\ n >= 3
        /\ \A i \in (n - 2)..n :
               log[i].handler = "image" /\ log[i].project_id = p /\ log[i].file_id = f
        /\ log[n - 2].data.update_type = "annotation_add"
        /\ log[n - 1].data.update_type = "annotation_update"
        /\ log[n - 1].data.data.id = Len(before)
        /\ log[n].data.update_type = "annotation_delete"
        /\ log[n].data.data.id = Len(before)

\* C21: an annotation_add, an annotation_update with the id the add returned
\* and an annotation_delete with that id leave the room's annotation list
\* equal to the list before the add (empty when it was empty).  (False when
\* the list already holds an annotation with the id the add hands out.)
C21_RoundTrip ==
    RoundTripDone(updates, "P1", "F1") =>
        AnnotationsOf(image_states, "P1", "F1")
            = AnnotationsOf(ImageReplay(SubSeq(updates, 1, Len(updates) - 3)), "P1", "F1")

\* the positions of the annotations with id n in a list
WithId(anns, n) == {i \in 1..Len(anns) : anns[i].id = n}

C22_Step(p, f, data) ==
    LET before == AnnotationsOf(image_states, p, f)
        after == AnnotationsOf(image_states', p, f)
        kept == {i \in 1..Len(before) : before[i].id # data.data.id}
    IN  /\ reply' = [type |-> "annotation_delete", data |-> data.data]
        /\ (~HasRoom(image_states, p, f) \/ WithId(before, data.data.id) = {})
               => image_states' = image_states
        /\ WithId(after, data.data.id) = {}
        /\ Len(after) = Cardinality(kept)
        /\ \A i \in kept : after[Cardinality({j \in kept : j <= i})] = before[i]
        /\ HasRoom(image_states, p, f) =>
               image_states' = [image_states EXCEPT ![p][f].annotations = after]

\* C22: annotation_delete with id i removes the annotation with id i and
\* keeps every other annotation, with its id and in the same relative order;
\* when no annotation has id i, or the room has no state, the state is
\* unchanged and no room state is created; the payload is the request data.
C22_DeleteRemovesById ==
    [][\A t \in ReducerRooms, data \in ImageUpdates :
           (ImageUpdate(t[1], t[2], data) /\ data.update_type = "annotation_delete")
               => C22_Step(t[1], t[2], data)]_vars

\* of two annotations the one with id 0 was deleted: the one with id 1 is left
C22_Witness ==
    LET l == LogOf(updates, "image", "P1", "F1")
        anns == AnnotationsOf(image_states, "P1", "F1")
    IN  /\ Len(l) = 3
        /\ l[1].data.update_type = "annotation_add"
        /\ l[2].data.update_type = "annotation_add"
        /\ l[3].data.update_type = "annotation_delete" /\ l[3].data.data.id = 0
        /\ Len(anns) = 1 /\ anns[1].id = 1
        /\ "type" \in DOMAIN reply /\ reply.type = "annotation_delete" /\ reply.data.id = 0

C23_Step(p, f, data) ==
    LET before == AnnotationsOf(image_states, p, f)
        after == AnnotationsOf(image_states', p, f)
        hits == WithId(before, data.data.id)
    IN  /\ (~HasRoom(image_states, p, f) \/ hits = {}) => image_states' = image_states
        /\ Len(after) = Len(before)
        /\ hits # {} =>
              LET k == CHOOSE i \in hits : \A j \in hits : i <= j
              IN  /\ after[k] = data.data
                  /\ \A i \in 1..Len(before) : i # k => after[i] = before[i]
        /\ HasRoom(image_states, p, f) =>
               image_states' = [image_states EXCEPT ![p][f].annotations = after]

\* C23: annotation_update with id i replaces the annotation whose id is i by
\* the supplied annotation at the same list position and changes nothing
\* else: the length, the order and all other annotations stay; when no
\* annotation has id i, or the room has no state, the state is unchanged.
C23_UpdateReplacesById ==
    [][\A t \in ReducerRooms, data \in ImageUpdates :
           (ImageUpdate(t[1], t[2], data) /\ data.update_type = "annotation_update")
               => C23_Step(t[1], t[2], data)]_vars

\* of two annotations the first was updated: it carries the new text at the
\* same position and the second is as it was
C23_Witness ==
    LET l == LogOf(updates, "image", "P1", "F1")
        anns == AnnotationsOf(image_states, "P1", "F1")
    IN  /\ Len(l) = 3
        /\ l[1].data.update_type = "annotation_add"
        /\ l[2].data.update_type = "annotation_add"
        /\ l[3].data.update_type = "annotation_update" /\ l[3].data.data.id = 0
        /\ Len(anns) = 2
        /\ anns[1] = [id |-> 0, text |-> "c"]
        /\ anns[2] = [id |-> 1, text |-> "a"]

\* the update types each reducer recognises
Recognised(h) ==
    IF h = "canvas" THEN {"draw", "clear", "cursor_move"}
    ELSE IF h = "document" THEN {"text_change", "cursor_change", "selection_change"}
    ELSE {"annotation_add", "annotation_delete", "annotation_update", "cursor_move"}

\* the last call of handle_update got an update type its reducer does not know
LastUnrecognised(log) ==
    /\ log # <<>>
    /\ log[Len(log)].data.update_type \notin Recognised(log[Len(log)].handler)

\* C24: handle_update of each of the three reducers, given an update_type it
\* does not recognise, returns the update it was given and leaves the state of
\* every room of every reducer as it was: no room is created or modified.
C24_UnknownPassesThrough ==
    [][LastUnrecognised(updates') =>
           /\ reply' = updates'[Len(updates')].data
           /\ canvas_states' = canvas_states
           /\ document_states' = document_states
           /\ image_states' = image_states]_vars

\* after a draw, each reducer was given an update it does not know, the image
\* reducer last: the stroke is there and no document or image room exists
C24_Witness ==
    /\ Len(updates) = 4
    /\ updates[1].handler = "canvas" /\ updates[1].data.update_type = "draw"
    /\ updates[2].handler = "canvas" /\ updates[2].data.update_type = "resize"
    /\ updates[3].handler = "document" /\ updates[3].data.update_type = "format"
    /\ updates[4].handler = "image" /\ updates[4].data.update_type = "zoom"
    /\ Len(StrokesOf(canvas_states, "P1", "F1")) = 1
    /\ document_states = EmptyMap
    /\ image_states = EmptyMap
    /\ "update_type" \in DOMAIN reply /\ reply.update_type = "zoom"

\* map after is map before with the entry of u set to v and no other change
SetsOnly(before, after, u, v) ==
    /\ DOMAIN after = DOMAIN before \cup {u}
    /\ after[u] = v
    /\ \A w \in DOMAIN before : w # u => after[w] = before[w]

C27_Step(p, f, data) ==
    LET u == data.user_id
    IN  /\ \A t \in Rooms :
               /\ ContentOf(document_states', t[1], t[2]) = ContentOf(document_states, t[1], t[2])
               /\ t # <<p, f>> =>
                     /\ CursorsOf(document_states', t[1], t[2])
                           = CursorsOf(document_states, t[1], t[2])
                     /\ SelectionsOf(document_states', t[1], t[2])
                           = SelectionsOf(document_states, t[1], t[2])
        /\ data.update_type = "cursor_change" =>
              /\ SetsOnly(CursorsOf(document_states, p, f), CursorsOf(document_states', p, f),
                          u, data.data)
              /\ SelectionsOf(document_states', p, f) = SelectionsOf(document_states, p, f)
              /\ reply' = [type |-> "cursor_change",
                           data |-> [position |-> data.data.position, user_id |-> u]]
        /\ data.update_type = "selection_change" =>
              /\ SetsOnly(SelectionsOf(document_states, p, f),
                          SelectionsOf(document_states', p, f), u, data.data)
              /\ CursorsOf(document_states', p, f) = CursorsOf(document_states, p, f)
              /\ reply' = [type |-> "selection_change",
                           data |-> [range |-> data.data.range, user_id |-> u]]

\* C27: a cursor_change (selection_change) from user u sets cursors[u]
\* (selections[u]) of that room to the supplied value and changes nothing
\* else: the content, the other map and the entries of the other users stay,
\* and the payload carries only the position (range) and u's user_id.
C27_CursorAndSelection ==
    [][\A t \in ReducerRooms, data \in DocumentUpdates :
           (DocumentUpdate(t[1], t[2], data)
                /\ data.update_type \in {"cursor_change", "selection_change"})
               => C27_Step(t[1], t[2], data)]_vars

\* a document with content, a cursor and a selection of U1 got a cursor of
\* U2: both cursors, the selection and the content are there
C27_Witness ==
    LET l == LogOf(updates, "document", "P1", "F1")
    IN  /\ Len(l) = 4
        /\ l[1].data.update_type = "text_change"
        /\ l[2].data.update_type = "cursor_change" /\ l[2].data.user_id = "U1"
        /\ l[3].data.update_type = "selection_change" /\ l[3].data.user_id = "U1"
        /\ l[4].data.update_type = "cursor_change" /\ l[4].data.user_id = "U2"
        /\ DOMAIN CursorsOf(document_states, "P1", "F1") = {"U1", "U2"}
        /\ DOMAIN SelectionsOf(document_states, "P1", "F1") = {"U1"}
        /\ ContentOf(document_states, "P1", "F1") = l[1].data.data.content
        /\ "type" \in DOMAIN reply /\ reply.type = "cursor_change"
        /\ reply.data = [position |-> 1, user_id |-> "U2"]

\* C30: the clean-up a handler runs when it terminates removes only that
\* handler's own transport: a transport the same user registered for the room
\* in the meantime stays registered.  (disconnect pops the entry by user id,
\* whichever transport it holds.)
C30_CleanupRemovesOwnTransportOnly ==
    [][\A ws \in WS : HandlerExit(ws) =>
           \A w \in Registered \ {ws} : w \in Registered']_vars

\* C28: a clear entry is never in the queue while a draw of its room that was
\* accepted before the clear is still buffered, in the executions where a
\* push of the forced flush fails too: each such draw has a queue entry
\* behind the clear's.  (A flush that fails returns normally with its buffer
\* kept, and the clear is pushed all the same.)
C28_ClearBehindEarlierDraws ==
    \A i \in 1..Len(drawing_events_queue) :
        LET c == drawing_events_queue[i]
            b == Buffered(redis_event_buffer, c.project_id, c.file_id)
        IN  c.event_type = "clear" =>
                /\ \A k \in 1..Len(b) : b[k].data > c.seq
                /\ \A j \in 1..i : \A d \in EventsOf(drawing_events_queue[j]) :
                       (/\ d.event_type = "draw" /\ d.project_id = c.project_id
                        /\ d.file_id = c.file_id /\ d.data < c.seq)
                           => \E m \in (i + 1)..Len(drawing_events_queue) :
                                  d \in EventsOf(drawing_events_queue[m])

\* the document transports held by document_connections and by
\* document_manager.active_connections
DocConnected == UNION {{document_connections[key][i][2] :
                               i \in 1..Len(document_connections[key])} :
                           key \in DOMAIN document_connections}
DocManaged == {document_manager[t[1]][t[2]][t[3]] :
                  t \in {t \in Projects \X Files \X (Users \cup {"U3"}) :
                            t[3] \in RoomUsers(document_manager, t[1], t[2])}}

\* C29: when a document session's handler terminates, its entry is gone from
\* document_connections and from document_manager.active_connections, and no
\* room key is left with an empty map under it.  (The clean-up sits under
\* "except WebSocketDisconnect:", a name src/main.py does not import, so it
\* never runs.)
C29_TerminationRemovesEntry ==
    [][\A ws \in WS : DocHandlerExit(ws) =>
           /\ ws \notin DocConnected'
           /\ ws \notin DocManaged'
           /\ \A key \in DOMAIN document_connections' : document_connections'[key] # <<>>]_vars

\* a canvas session whose message could not be processed is sent an 'error'
\* message, stays registered and is back in its receive loop
C26_CanvasStep(ws) ==
    RecvMalformed(ws) =>
        /\ Len(inbox'[ws]) = Len(inbox[ws]) + 1
        /\ inbox'[ws][Len(inbox'[ws])].type = "error"
        /\ active_connections' = active_connections
        /\ Running(ws)' /\ AwaitingReceive(ws)'
\* the same for a document session
C26_DocumentStep(ws) ==
    DocRecvMalformed(ws) =>
        /\ Len(doc_inbox'[ws]) = Len(doc_inbox[ws]) + 1
        /\ doc_inbox'[ws][Len(doc_inbox'[ws])].type = "error"
        /\ document_connections' = document_connections
        /\ document_manager' = document_manager
        /\ doc_handler'[ws].pc = "receive"

\* C26: when processing an inbound message fails, the originating session is
\* sent an 'error' message, stays registered, and its handler is back in its
\* receive loop, on the canvas endpoint and on the document endpoint.  (The
\* document endpoint logs the failure and sends nothing.)
C26_FailureIsReported ==
    [][\A ws \in WS : C26_CanvasStep(ws) /\ C26_DocumentStep(ws)]_vars

\* a canvas session's message of an unknown type: nothing is broadcast or
\* delivered, the registry, the scheduled tasks, the event buffer and the
\* queue are as before, and the handler is back in its receive loop
C25_CanvasStep(ws) ==
    RecvUnknown(ws) =>
        /\ inflight' = inflight /\ inbox' = inbox /\ failed' = failed
        /\ active_connections' = active_connections
        /\ tasks' = tasks
        /\ redis_event_buffer' = redis_event_buffer
        /\ drawing_events_queue' = drawing_events_queue
        /\ Running(ws)' /\ AwaitingReceive(ws)' /\ handler'[ws].open
        /\ (ws \in Registered => ws \in Registered')
\* the same for a document session
C25_DocumentStep(ws) ==
    DocRecvUnknown(ws) =>
        /\ doc_inbox' = doc_inbox
        /\ document_connections' = document_connections
        /\ document_manager' = document_manager
        /\ redis_event_buffer' = redis_event_buffer
        /\ drawing_events_queue' = drawing_events_queue
        /\ doc_handler'[ws].pc = "receive" /\ doc_handler'[ws].open
        /\ doc_handler'[ws].errors = doc_handler[ws].errors

\* C25: a message whose type the endpoint does not recognise is never fatal:
\* it causes no broadcast, no change to the registry, the event buffer or the
\* queue and no error message; the session stays registered and its handler
\* is back in its receive loop, on both websocket endpoints.
C25_UnknownTypeIsNotFatal ==
    [][\A ws \in WS : C25_CanvasStep(ws) /\ C25_DocumentStep(ws)]_vars

\* a session sent a message of an unknown type and then a draw, which its
\* peer in the room received
C25_Witness ==
    \E ws \in WS, w \in WS :
        /\ w # ws
        /\ handler[ws].warnings = 1
        /\ ws \in Registered
        /\ nmsg = 2
        /\ \E i \in 1..Len(inbox[w]) :
               /\ inbox[w][i].from = ws
               /\ inbox[w][i].seq = 2
               /\ inbox[w][i].type = "draw"

\* the events in the buffer, of every room
AllBuffered(buf) ==
    UNION {{Buffered(buf, r[1], r[2])[i] : i \in 1..Len(Buffered(buf, r[1], r[2]))} :
              r \in Rooms}
\* the events the batcher holds or is handed in this step: the buffered ones
\* and the draw of the push task that runs now
C31_Held ==
    AllBuffered(redis_event_buffer) \cup
        (IF HeadIsPush("draw") /\ tasks' = Tail(tasks) THEN {Head(tasks).event} ELSE {})

\* C31: with the queue enabled, an event that the batcher holds and that is
\* not in the buffer after a step is in the queue after it, standalone or
\* inside a batch envelope: no draw, clear, timed flush or disconnect flush
\* drops an accepted event.  (flush_redis_buffer has no await between its
\* first lpush and redis_event_buffer.clear(), so nothing is added to the
\* buffer while a flush is in progress.)
C31_RemovedMeansPushed ==
    [][REDIS_ENABLED =>
           \A ev \in C31_Held :
               ev \in AllBuffered(redis_event_buffer') \/ InQueue(drawing_events_queue', ev)]_vars

\* a draw was buffered, a clear's forced flush failed and the clear was pushed,
\* and a later flush pushed the draw: the buffer is empty and both are queued
C31_Witness ==
    /\ REDIS_ENABLED
    /\ nfail = 1
    /\ redis_event_buffer = <<>>
    /\ \E i, j \in 1..Len(drawing_events_queue) :
           /\ i < j
           /\ drawing_events_queue[i].event_type = "draw"
           /\ drawing_events_queue[j].event_type = "clear"
           /\ drawing_events_queue[i].project_id = drawing_events_queue[j].project_id
           /\ drawing_events_queue[i].file_id = drawing_events_queue[j].file_id

\* C32: each draw event accepted into the buffer is pushed to the queue at
\* most once over all flushes: no draw event is carried by two entries of
\* the queue.  (A flush whose push for a later room raises keeps the whole
\* buffer, the rooms already pushed included, and the next flush pushes
\* them again.)
C32_PushedAtMostOnce ==
    \A i, j \in 1..Len(drawing_events_queue) :
        i < j => \A ev \in EventsOf(drawing_events_queue[i]) :
                     ev.event_type = "draw" => ev \notin EventsOf(drawing_events_queue[j])

\* no canvas session has a handler running
NoSession == \A ws \in WS : ~Running(ws)

\* C33: with the queue enabled and the queue commands failing only finitely
\* often, no event stays buffered forever once every session has
\* disconnected: a buffer that is not empty when no handler is running is
\* eventually empty.  (Only handlers start flushes; when the flush of the
\* last handler's clean-up fails, nothing is left to start another.)
C33_BufferEventuallyPushed ==
    (NoSession /\ redis_event_buffer # <<>>) ~> (redis_event_buffer = <<>>)

\* the room a running handler's session was registered under
RoomOf(ws) == <<handler[ws].project_id, handler[ws].file_id>>
\* the registry's map of a room
RoomMap(ac, r) ==
    IF r[1] \in DOMAIN ac /\ r[2] \in DOMAIN ac[r[1]] THEN ac[r[1]][r[2]] ELSE EmptyMap

\* C34: a broadcast for room (P, F) issues sends only to transports
\* registered in (P, F), whose sessions connected under that project id and
\* that file id, and the eviction that ends it changes the registry of room
\* (P, F) only: rooms that share the project id or the file id are untouched.
C34_RoomIsolation ==
    [][/\ \A ws \in WS, type \in Broadcasts, data \in 0..MsgBound :
              RecvBroadcast(ws, type, data) =>
                  \A s \in NewSends :
                      /\ \E u \in Users : RegisteredAs(RoomOf(ws)[1], RoomOf(ws)[2], u, s.dst)
                      /\ RoomOf(s.dst) = RoomOf(ws)
                      /\ \A r \in Rooms \ {RoomOf(ws)} : \A u \in Users :
                             ~RegisteredAs(r[1], r[2], u, s.dst)
       /\ \A ws \in WS :
              GatherDone(ws) =>
                  \A r \in Rooms \ {RoomOf(ws)} :
                      RoomMap(active_connections', r) = RoomMap(active_connections, r)]_vars

\* a broadcast evicted a closed session of its room while a session of a
\* room with the same project id or the same file id stays registered and
\* has received nothing
C34_Witness ==
    \E ws \in WS, w \in WS, o \in WS :
        /\ Running(ws) /\ Running(w) /\ Running(o)
        /\ w # ws /\ RoomOf(w) = RoomOf(ws)
        /\ handler[w].user_id # handler[ws].user_id
        /\ ~handler[w].open /\ w \notin Registered
        /\ ws \in Registered
        /\ handler[ws].pc = "receive" /\ nmsg > 0
        /\ o \in Registered /\ RoomOf(o) # RoomOf(ws)
        /\ (RoomOf(o)[1] = RoomOf(ws)[1] \/ RoomOf(o)[2] = RoomOf(ws)[2])
        /\ inbox[o] = <<>>

\* C35: when the fan-out of a text_operation or cursor_update ends, a send
\* has been attempted to every transport that was registered in the document
\* under another user when the fan-out began and still is when it ends,
\* whatever connected, disconnected or was evicted while it was awaiting a
\* send.  (A transport never registers twice, so these are the transports
\* registered for the whole fan-out.  The loop walks the live dict: when
\* another handler's clean-up deletes an entry during an await, the next
\* iteration raises and the rest of the room is skipped.)
C35_FanoutReachesEveryone ==
    [][\A ws \in WS :
           (DocSendNext(ws) /\ doc_handler'[ws].pc = "receive") =>
               (doc_handler[ws].start \cap DocOthers(doc_handler[ws]))
                   \subseteq doc_handler[ws].attempted]_vars

\* the (project_id, file_id, user_id) sessions of the two document registries
DocConnectedSessions ==
    UNION {{<<key[1], key[2], document_connections[key][i][1]>> :
               i \in 1..Len(document_connections[key])} :
           key \in DOMAIN document_connections}
DocManagedSessions ==
    {t \in Projects \X Files \X (Users \cup {"U3"}) :
        t[3] \in RoomUsers(document_manager, t[1], t[2])}

\* C36: document_connections and document_manager.active_connections hold
\* the same (project_id, file_id, user_id) sessions in every state between
\* handler steps, and document_connections has no room key with an empty
\* session map.  (The removal after a failed send deletes from
\* document_connections only.)
C36_RegistriesAgree ==
    /\ DocConnectedSessions = DocManagedSessions
    /\ \A key \in DOMAIN document_connections : document_connections[key] # <<>>

\* C37: after any sequence of annotation_add, annotation_update and
\* annotation_delete updates to an image room, no two annotations of the
\* room's list have the same id.  (The id an add hands out is the length of
\* the list, which a delete makes smaller than an id still in use.)
C37_AnnotationIdsUnique ==
    \A t \in ReducerRooms :
        LET anns == AnnotationsOf(image_states, t[1], t[2])
        IN  \A i, j \in 1..Len(anns) : i # j => anns[i].id # anns[j].id

\* C38: while the queue is disabled the batcher is inert: in every state the
\* buffer and the queue are empty and no push is scheduled, and a draw or
\* clear is still sent to every other session of its room, after any
\* sequence of draws, clears, idle time-outs and disconnects.
C38_DisabledBatcherInert ==
    /\ [](~REDIS_ENABLED =>
              /\ redis_event_buffer = <<>>
              /\ drawing_events_queue = <<>>
              /\ \A i \in 1..Len(tasks) : tasks[i].kind # "push")
    /\ [][~REDIS_ENABLED =>
              \A ws \in WS, type \in Broadcasts, data \in 0..MsgBound :
                  RecvBroadcast(ws, type, data) =>
                      /\ {s.dst : s \in NewSends} =
                             {w \in Registered \ {ws} :
                                 /\ RoomOf(w) = RoomOf(ws)
                                 /\ handler[w].user_id # handler[ws].user_id}
                      /\ tasks' = tasks]_vars

\* with the queue disabled a peer has received a draw that carries data and
\* a clear, a session has disconnected, and every scheduled task has run
C38_Witness ==
    /\ ~REDIS_ENABLED
    /\ \E ws \in WS : handler[ws].pc = "done"
    /\ tasks = <<>>
    /\ \E w \in WS : \E i, j \in 1..Len(inbox[w]) :
           /\ inbox[w][i].type = "draw" /\ inbox[w][i].data # 0
           /\ inbox[w][j].type = "clear"

\* the step runs a task that attempts a flush: a flush task, the push of a
\* clear, or a check or the push of a draw once the interval has elapsed
C39_Attempts ==
    /\ tasks # <<>> /\ tasks' = Tail(tasks)
    /\ \/ Head(tasks).kind = "flush"
       \/ HeadIsPush("clear")
       \/ IntervalElapsed /\ (Head(tasks).kind = "check" \/ HeadIsPush("draw"))

\* C39: the last flush time changes only in a step that attempts a flush, and
\* then to the current time; a flush one of whose queue commands fails
\* leaves it as it was, so that the interval is still elapsed and the next
\* buffer add or idle-time check attempts a flush again; a flush that
\* completes sets it to the current time, after which a check or the push
\* of a draw flushes nothing until a full interval has passed.
C39_LastFlushTime ==
    /\ [](last_redis_flush_time <= now)
    /\ [][/\ last_redis_flush_time' # last_redis_flush_time =>
                 (C39_Attempts /\ last_redis_flush_time' = now)
          /\ \A x \in Commands :
                 ((RunFlush(x) \/ RunPush(x, TRUE)) /\ C39_Attempts
                      /\ x < FlushCommands(C5_FlushInput)) =>
                     /\ last_redis_flush_time' = last_redis_flush_time
                     /\ nfail' = nfail + 1
                     /\ IntervalElapsed => IntervalElapsed'
          /\ \A x \in Commands :
                 ((RunFlush(x) \/ RunPush(x, TRUE)) /\ C39_Attempts
                      /\ x = FlushCommands(C5_FlushInput)) =>
                     /\ last_redis_flush_time' = now
                     /\ redis_event_buffer' = <<>>
                     /\ ~IntervalElapsed'
          /\ (tasks # <<>> /\ tasks' = Tail(tasks) /\ ~C39_Attempts) =>
                 /\ last_redis_flush_time' = last_redis_flush_time
                 /\ drawing_events_queue' = drawing_events_queue]_vars

\* the interval elapsed, a flush failed at its lpush and kept the time and
\* the buffer, and the flush of the next draw pushed all three draws in one
\* envelope and set the time
C39_Witness ==
    /\ nfail = 1
    /\ last_redis_flush_time = REDIS_FLUSH_INTERVAL
    /\ redis_event_buffer = <<>>
    /\ Len(drawing_events_queue) = 1
    /\ drawing_events_queue[1].event_type = "batch"
    /\ drawing_events_queue[1].count = 3

====
